---- MODULE Spec2Model ----
(***************************************************************************)
(* Model of the googol coordination plane: the Gateway's URL frontier      *)
(* (gateway/queue.rs), the LoadBalancer (gateway/load_balancer.rs), the    *)
(* Gateway gRPC handlers (gateway/mod.rs) and the status aggregates        *)
(* (gateway/status.rs, top_searches.rs).                                   *)
(*                                                                         *)
(* The specifications share the variables:                                 *)
(*   SpecQueue  the Queue type on its own, driven through its public       *)
(*              methods enqueue / dequeue / clear_seen;                    *)
(*   Spec       the Gateway: concurrent handler tasks over queue,          *)
(*              load_balancer and status, with the Barrels as environment. *)
(*   FairSpec   Spec with weak fairness on every step of a running task;   *)
(*   SpecWatch  the Gateway serving status watchers, FairWatch with weak   *)
(*              fairness;                                                  *)
(*   SpecResponseTime  the ResponseTime aggregate on its own;              *)
(*   SpecIndexStore    the IndexStore (index_store.rs) on its own.         *)
(***************************************************************************)
EXTENDS Integers, Sequences, FiniteSets, TLC

(***************************************************************************)
(* Bounds                                                                  *)
(***************************************************************************)
\* number of handler tasks the Gateway runs at the same time
NumTasks == 2
\* number of requests the Gateway takes up
MaxCalls == 3
\* number of Barrel records in the LoadBalancer
NumBarrels == 2
\* longest outlink list of an Index request
MaxOutlinks == 2
\* longest word list of a Search request
MaxWords == 1
\* largest latency sample, in milliseconds
MaxDuration == 1
\* number of Queue method calls in SpecQueue
MaxQueueOps == 5
\* number of handler tasks of SpecWatch at the same time
NumWatchTasks == 3
\* number of latency samples fed to one ResponseTime in SpecResponseTime
MaxSamples == 4
\* number of calendar days a Page timestamp can fall on
MaxDays == 2
\* number of further instants within one day
MaxTicks == 1
\* number of store calls on the IndexStore in SpecIndexStore
MaxStores == 2
\* longest word list of a search on the IndexStore
MaxQueryWords == 2
\* number of add_search calls on the TopSearches in SpecTopSearches
MaxSearches == 4
\* largest n asked of top_n in SpecTopSearches
MaxTopN == 3
\* settings.threads: number of worker tasks of one Downloader
NumWorkers == 2

Tasks == 1..NumTasks
WatchTasks == 1..NumWatchTasks
AllTasks == Tasks \cup WatchTasks
BarrelIds == 1..NumBarrels
Durations == 1..MaxDuration

(***************************************************************************)
(* URLs.  Requests carry strings; Url::parse turns a string into a Url or  *)
(* fails, and a parsed Url prints in its normalised form (an empty path of *)
(* an http URL becomes "/").                                               *)
(***************************************************************************)
RawUrls == {"http://a", "http://b/", "not a url"}

ParseError == "ParseError"

UrlParse(s) ==
    CASE s = "http://a"  -> "http://a/"
      [] s = "http://a/" -> "http://a/"
      [] s = "http://b"  -> "http://b/"
      [] s = "http://b/" -> "http://b/"
      [] OTHER           -> ParseError

Urls == {UrlParse(s) : s \in RawUrls} \ {ParseError}

\* Url::to_string
UrlToString(u) == u

Words == {"rust", "web"}

\* GoogolStatus
Success == "Success"
InvalidUrl == "InvalidUrl"
AlreadyIndexedUrl == "AlreadyIndexedUrl"
UnavailableBarrels == "UnavailableBarrels"

(***************************************************************************)
(* Sequence helpers                                                        *)
(***************************************************************************)
Range(s) == {s[i] : i \in 1..Len(s)}

Count(x, s) == Cardinality({i \in 1..Len(s) : s[i] = x})

SeqsUpTo(S, n) == UNION {[1..k -> S] : k \in 0..n}

(***************************************************************************)
(* DomainsFilter (settings/gateway.rs).  The Queue stores the filter of    *)
(* the configuration in a field that none of its methods reads, so the     *)
(* filter is no part of the Queue value below.                             *)
(***************************************************************************)
\* Url::host
UrlHost(u) ==
    CASE u = "http://a/" -> "a"
      [] u = "http://b/" -> "b"

Hosts == {UrlHost(u) : u \in Urls}

\* the filters a GatewayConfig may hold
DomainsFilters == [whitelist : SUBSET Hosts, blacklist : SUBSET Hosts]

\* DomainsFilter::is_blacklisted
IsBlacklisted(filter, u) == UrlHost(u) \in filter.blacklist

\* DomainsFilter::is_whitelisted
IsWhitelisted(filter, u) == UrlHost(u) \in filter.whitelist

(***************************************************************************)
(* Queue (gateway/queue.rs).  A Queue value is [queue, seen].              *)
(***************************************************************************)
\* Queue::into_vec
IntoVec(Q) == [i \in 1..Len(Q.queue) |-> UrlToString(Q.queue[i])]

\* mutant of Queue::enqueue: the seen-set is not consulted
QueueEnqueueNoDedup(Q, url) ==
    LET Q2 == [queue |-> Append(Q.queue, url), seen |-> Q.seen \cup {url}]
    IN  [Q |-> Q2, status |-> Success, list |-> IntoVec(Q2)]

\* Queue::enqueue: the new Queue and the returned (status, snapshot)
QueueEnqueue(Q, url) ==
    IF url \in Q.seen
    THEN [Q |-> Q, status |-> AlreadyIndexedUrl, list |-> IntoVec(Q)]
    ELSE LET Q2 == [queue |-> Append(Q.queue, url), seen |-> Q.seen \cup {url}]
         IN  [Q |-> Q2, status |-> Success, list |-> IntoVec(Q2)]

\* Queue::dequeue: the new Queue and the returned Option<Url>
None == "None"

\* mutant of Queue::dequeue: pops the back of the queue
QueueDequeuePopBack(Q) ==
    IF Q.queue = <<>>
    THEN [Q |-> Q, url |-> None]
    ELSE [Q |-> [queue |-> SubSeq(Q.queue, 1, Len(Q.queue) - 1), seen |-> Q.seen],
          url |-> Q.queue[Len(Q.queue)]]

\* mutant of Queue::dequeue: the popped Url is also removed from seen
QueueDequeueForgets(Q) ==
    IF Q.queue = <<>>
    THEN [Q |-> Q, url |-> None]
    ELSE [Q |-> [queue |-> Tail(Q.queue), seen |-> Q.seen \ {Head(Q.queue)}],
          url |-> Head(Q.queue)]

\* mutant of Queue::dequeue: returns the front without popping it
QueueDequeuePeek(Q) ==
    IF Q.queue = <<>>
    THEN [Q |-> Q, url |-> None]
    ELSE [Q |-> Q, url |-> Head(Q.queue)]

QueueDequeue(Q) ==
    IF Q.queue = <<>>
    THEN [Q |-> Q, url |-> None]
    ELSE [Q |-> [queue |-> Tail(Q.queue), seen |-> Q.seen], url |-> Head(Q.queue)]

\* mutant of Queue::clear_seen: seen is cleared and not rebuilt
QueueClearSeenNoRebuild(Q) == [queue |-> Q.queue, seen |-> {}]

\* Queue::clear_seen
QueueClearSeen(Q) == [queue |-> Q.queue, seen |-> Range(Q.queue)]

\* the outlinks pushed to the queue without consulting the seen-set
RECURSIVE EnqueueOutlinksNoDedup(_, _)
EnqueueOutlinksNoDedup(Q, outlinks) ==
    IF outlinks = <<>>
    THEN [Q |-> Q, panicked |-> FALSE]
    ELSE IF UrlParse(Head(outlinks)) = ParseError
         THEN [Q |-> Q, panicked |-> TRUE]
         ELSE EnqueueOutlinksNoDedup(
                  [queue |-> Append(Q.queue, UrlParse(Head(outlinks))),
                   seen |-> Q.seen \cup {UrlParse(Head(outlinks))}],
                  Tail(outlinks))

\* Gateway::index, lines 385-389: under the queue lock, parse and enqueue the
\* outlinks in order; Url::parse(..).unwrap() panics at the first string that
\* does not parse, leaving the earlier outlinks enqueued.
RECURSIVE EnqueueOutlinks(_, _)
EnqueueOutlinks(Q, outlinks) ==
    IF outlinks = <<>>
    THEN [Q |-> Q, panicked |-> FALSE]
    ELSE IF UrlParse(Head(outlinks)) = ParseError
         THEN [Q |-> Q, panicked |-> TRUE]
         ELSE EnqueueOutlinks(QueueEnqueue(Q, UrlParse(Head(outlinks))).Q, Tail(outlinks))

(***************************************************************************)
(* ResponseTime (gateway/status.rs).  The f32 mean is kept as an exact     *)
(* fraction [num, den] in lowest terms; NaN is the result of 0.0 / 0.0.    *)
(***************************************************************************)
RECURSIVE GCD(_, _)
GCD(a, b) == IF b = 0 THEN a ELSE GCD(b, a % b)

NaN == [num |-> 0, den |-> 0]

Frac(n, d) ==
    IF d = 0 THEN NaN
    ELSE LET g == GCD(n, d) IN [num |-> n \div g, den |-> d \div g]

Zero == Frac(0, 1)

\* (m * count + x) / total, for a mean m, an integer count, a fraction x
WeightedMean(m, count, x, total) ==
    IF m = NaN \/ x = NaN THEN NaN
    ELSE Frac(m.num * count * x.den + x.num * m.den, m.den * x.den * total)

\* ResponseTime::default
DefaultResponseTime == [miliseconds |-> Zero, count |-> 0]

\* new_sample averaging the old mean and the new sample, whatever the count
NewSampleHalves(rt, duration) ==
    [miliseconds |-> IF rt.count = 0 THEN Frac(duration, 1)
                     ELSE WeightedMean(rt.miliseconds, 1, Frac(duration, 1), 2),
     count |-> rt.count + 1]

\* ResponseTime::new_sample, with the elapsed time as the integer duration
NewSample(rt, duration) ==
    [miliseconds |-> WeightedMean(rt.miliseconds, rt.count, Frac(duration, 1), rt.count + 1),
     count |-> rt.count + 1]

\* ResponseTime::update
Update(rt, response_time) ==
    [miliseconds |->
        IF response_time.miliseconds = NaN THEN NaN
        ELSE WeightedMean(rt.miliseconds, rt.count,
                 Frac(response_time.miliseconds.num * response_time.count,
                      response_time.miliseconds.den),
                 rt.count + response_time.count),
     count |-> rt.count]

\* the iteration orders of a HashSet of the keys of a HashMap or of a BinaryHeap
Orders(set) ==
    {s \in [1..Cardinality(set) -> set] :
        \A i, j \in 1..Cardinality(set) : i # j => s[i] # s[j]}

(***************************************************************************)
(* TopSearches (top_searches.rs).  counts maps every word to its counter;  *)
(* a word absent from the HashMap has counter 0.                           *)
(***************************************************************************)
\* add_search recording the word without counting its occurrences
AddSearchNoIncrement(counts, word) == [counts EXCEPT ![word] = 1]

\* TopSearches::add_search
AddSearch(counts, word) == [counts EXCEPT ![word] = @ + 1]

\* the for loop of Gateway::search, lines 515-517
RECURSIVE AddSearches(_, _)
AddSearches(counts, words) ==
    IF words = <<>> THEN counts
    ELSE AddSearches(AddSearch(counts, Head(words)), Tail(words))

\* the words counted in SpecTopSearches
TopWords == Words \cup {"go"}

\* Ord for String on the words of the model
KeywordRank(w) ==
    CASE w = "go"   -> 1
      [] w = "rust" -> 2
      [] w = "web"  -> 3

\* Ord for (usize, String): by count, then by keyword
EntryLess(a, b) ==
    a[1] < b[1] \/ (a[1] = b[1] /\ KeywordRank(a[2]) < KeywordRank(b[2]))

\* BinaryHeap<Reverse<(usize, String)>>::peek: the least entry
HeapPeek(heap) == CHOOSE a \in heap : \A b \in heap : a = b \/ EntryLess(a, b)

\* the loop that fills the heap and then keeps it as it is
RECURSIVE TopNLoopKeepsFirst(_, _, _, _)
TopNLoopKeepsFirst(heap, order, counts, n) ==
    IF order = <<>> THEN heap
    ELSE TopNLoopKeepsFirst(
             IF Cardinality(heap) < n
             THEN heap \cup {<<counts[Head(order)], Head(order)>>}
             ELSE heap,
             Tail(order), counts, n)

\* TopSearches::top_n, lines 145-156: the loop over the HashMap, walked in
\* the given order, that keeps at most n entries in the min-heap
RECURSIVE TopNLoop(_, _, _, _)
TopNLoop(heap, order, counts, n) ==
    IF order = <<>> THEN heap
    ELSE LET keyword == Head(order)
             count == counts[keyword]
         IN TopNLoop(
                IF Cardinality(heap) < n
                THEN heap \cup {<<count, keyword>>}
                ELSE IF heap # {} /\ count > HeapPeek(heap)[1]
                     THEN (heap \ {HeapPeek(heap)}) \cup {<<count, keyword>>}
                     ELSE heap,
                Tail(order), counts, n)

\* slice::sort_by with |a, b| b.0.cmp(&a.0): a stable sort, larger counts
\* first
RECURSIVE InsertByCount(_, _)
InsertByCount(sorted, entry) ==
    IF sorted = <<>> THEN <<entry>>
    ELSE IF Head(sorted)[1] >= entry[1]
         THEN <<Head(sorted)>> \o InsertByCount(Tail(sorted), entry)
         ELSE <<entry>> \o sorted

RECURSIVE SortByCount(_)
SortByCount(entries) ==
    IF entries = <<>> THEN <<>>
    ELSE InsertByCount(SortByCount(SubSeq(entries, 1, Len(entries) - 1)),
                       entries[Len(entries)])

\* TopSearches::top_n: the possible results, the keywords of the entries in
\* the order returned (the count of an entry is the counter of its keyword).
\* The HashMap is walked in an unspecified order, and so is the heap when it
\* is collected.
TopN(counts, n) ==
    LET keys == {w \in DOMAIN counts : counts[w] > 0} IN
    UNION {
        {[k \in 1..Len(collected) |-> SortByCount(collected)[k][2]] :
            collected \in Orders(TopNLoop({}, order, counts, n))}
        : order \in Orders(keys)}

(***************************************************************************)
(* LoadBalancer (gateway/load_balancer.rs)                                 *)
(***************************************************************************)
\* Barrel::new
NewBarrel == [online |-> FALSE, index_size_bytes |-> 0]

\* Barrel::mark_failure
MarkFailure(barrel) == [barrel EXCEPT !.online = FALSE]

\* Barrel::mark_success
MarkSuccess(barrel) == [barrel EXCEPT !.online = TRUE]

\* LoadBalancer::get_barrels_status
GetBarrelsStatus(bs) == [i \in BarrelIds |-> bs[i]]

\* what one attempt on a Barrel can come to: connect() fails, connect()
\* succeeds and the call f fails, or both succeed
Outcomes == {"connect_err", "call_err", "ok"}

\* the locals of broadcast / send_until at loop entry; i is the position of
\* the iterator over self.barrels, tried the attempts made so far (history)
NewLoop == [i |-> 1, offline |-> 0, responses |-> <<>>,
            avg_response |-> DefaultResponseTime, tried |-> <<>>]

\* the payload of the response a Barrel gives (its pages or links), standing
\* for whatever that Barrel's store holds: a list naming the Barrel
ResponseOf(i) == <<[from |-> i]>>

\* One iteration of the for loop of LoadBalancer::send_until on Barrel l.i,
\* and the code after the loop when that was the last Barrel.
\* result: "next" (loop goes on), "Ok" (returned LBResult::Ok), "Offline".
SendUntilStep(bs, l, outcome, duration) ==
    LET i == l.i
        l1 == [l EXCEPT !.i = i + 1,
                        !.tried = Append(@, [barrel |-> i, outcome |-> outcome])]
    IN
    CASE outcome = "ok" ->
            [barrels |-> [bs EXCEPT ![i] = MarkSuccess(@)],
             loop |-> [l1 EXCEPT !.avg_response = NewSample(@, duration),
                                 !.responses = <<ResponseOf(i)>>],
             result |-> "Ok"]
      [] outcome = "call_err" ->
            [barrels |-> bs,
             loop |-> l1,
             result |-> IF i = NumBarrels THEN "Offline" ELSE "next"]
      [] outcome = "connect_err" ->
            [barrels |-> [bs EXCEPT ![i] = MarkFailure(@)],
             loop |-> [l1 EXCEPT !.offline = @ + 1],
             result |-> IF i = NumBarrels THEN "Offline" ELSE "next"]

\* mutant of LoadBalancer::broadcast: gives up at the first Barrel that fails
BroadcastStepShortCircuit(bs, l, outcome, duration) ==
    LET i == l.i
        l1 == [l EXCEPT !.i = i + 1,
                        !.tried = Append(@, [barrel |-> i, outcome |-> outcome])]
        l2 == IF outcome = "ok"
              THEN [l1 EXCEPT !.avg_response = NewSample(@, duration),
                              !.responses = Append(@, ResponseOf(i))]
              ELSE [l1 EXCEPT !.offline = @ + 1]
    IN
    [barrels |-> [bs EXCEPT ![i] = IF outcome = "ok" THEN MarkSuccess(@)
                                                     ELSE MarkFailure(@)],
     loop |-> l2,
     result |-> IF outcome # "ok" THEN "Offline"
                ELSE IF i < NumBarrels THEN "next" ELSE "Ok"]

\* mutant of LoadBalancer::broadcast: a Barrel that fails keeps its online flag
BroadcastStepKeepsFlag(bs, l, outcome, duration) ==
    LET i == l.i
        l1 == [l EXCEPT !.i = i + 1,
                        !.tried = Append(@, [barrel |-> i, outcome |-> outcome])]
        l2 == IF outcome = "ok"
              THEN [l1 EXCEPT !.avg_response = NewSample(@, duration),
                              !.responses = Append(@, ResponseOf(i))]
              ELSE [l1 EXCEPT !.offline = @ + 1]
    IN
    [barrels |-> [bs EXCEPT ![i] = IF outcome = "ok" THEN MarkSuccess(@) ELSE @],
     loop |-> l2,
     result |-> IF i < NumBarrels THEN "next"
                ELSE IF l2.responses # <<>> THEN "Ok" ELSE "Offline"]

\* One iteration of the for loop of LoadBalancer::broadcast on Barrel l.i,
\* and the code after the loop when that was the last Barrel.
BroadcastStep(bs, l, outcome, duration) ==
    LET i == l.i
        l1 == [l EXCEPT !.i = i + 1,
                        !.tried = Append(@, [barrel |-> i, outcome |-> outcome])]
        l2 == IF outcome = "ok"
              THEN [l1 EXCEPT !.avg_response = NewSample(@, duration),
                              !.responses = Append(@, ResponseOf(i))]
              ELSE [l1 EXCEPT !.offline = @ + 1]
    IN
    [barrels |-> [bs EXCEPT ![i] = IF outcome = "ok" THEN MarkSuccess(@)
                                                     ELSE MarkFailure(@)],
     loop |-> l2,
     result |-> IF i < NumBarrels THEN "next"
                ELSE IF l2.responses # <<>> THEN "Ok" ELSE "Offline"]

(***************************************************************************)
(* IndexStore (index_store.rs) and Page (page/mod.rs).  A Page is kept by  *)
(* its url and timestamp, a timestamp by its calendar day and the instant  *)
(* within the day.  A HashMap is a function over the keys it holds.        *)
(***************************************************************************)
\* the latencies fed to a ResponseTime in SpecResponseTime, in milliseconds
SampleValues == {100, 200, 300}

StoreWords == {"RUST", "rust", "web"}

\* the word left in the case it came in
ToLowercaseKeepsCase(w) == w

\* str::to_lowercase
ToLowercase(w) ==
    CASE w = "RUST" -> "rust"
      [] w = "Rust" -> "rust"
      [] w = "WEB"  -> "web"
      [] w = "Web"  -> "web"
      [] OTHER      -> w

Timestamps == [day : 1..MaxDays, tick : 0..MaxTicks]

Pages == [url : Urls, timestamp : Timestamps]

\* impl PartialEq for Page: same url and same calendar date
PageEq(p, q) == p.url = q.url /\ p.timestamp.day = q.timestamp.day

\* HashSet<Page>::insert.  Hash is derived over every field and eq compares
\* only url and date: a page equal to a held one but with another hash is
\* found, and so not inserted, only when the two hashes collide in the table.
HashSetInsert(pages, page, collide) ==
    IF page \in pages THEN pages
    ELSE IF collide /\ \E q \in pages : PageEq(q, page) THEN pages
    ELSE pages \cup {page}

\* HashMap::insert
MapInsert(m, k, v) == [x \in DOMAIN m \cup {k} |-> IF x = k THEN v ELSE m[x]]

\* the entry of k overwritten by vs instead of extended
EntryExtendReplaces(m, k, vs) ==
    [x \in DOMAIN m \cup {k} |-> IF x = k THEN vs ELSE m[x]]

\* HashMap::entry(k).or_insert_with(HashSet::new) followed by extend(vs)
EntryExtend(m, k, vs) ==
    [x \in DOMAIN m \cup {k} |->
        IF x = k THEN (IF k \in DOMAIN m THEN m[k] ELSE {}) \cup vs ELSE m[x]]

\* HashMap::get(k).cloned().unwrap_or_default()
GetOrDefault(m, k) == IF k \in DOMAIN m THEN m[k] ELSE {}

\* a HashMap without keys
EmptyMap == [x \in {} |-> {}]

\* the paths an IndexStore is saved to and loaded from; StorePath is the one
\* of the configuration, at OtherPath no file is ever written
StorePath == "index.json"
OtherPath == "other.json"
Paths == {StorePath, OtherPath}

\* #[derive(Default)] on IndexStore: empty collections, an empty PathBuf, 0
IndexStoreDefault ==
    [indexed_pages |-> {}, url2pages |-> EmptyMap, index |-> EmptyMap,
     invert_index |-> EmptyMap, backlinks |-> EmptyMap, outlinks |-> EmptyMap,
     filepath |-> "", size_bytes |-> 0]

\* IndexStore::new(filepath)
IndexStoreNewAt(filepath) == [IndexStoreDefault EXCEPT !.filepath = filepath]

\* IndexStore::new on the configured path
IndexStoreNew == IndexStoreNewAt(StorePath)

\* the words loop filling the word-to-URLs index only
StoreWordsLoopForwardOnly(S, url, words) ==
    LET lower == {ToLowercase(words[k]) : k \in 1..Len(words)} IN
    [S EXCEPT !.index = [w \in DOMAIN S.index \cup lower |->
                            IF w \in lower THEN GetOrDefault(S.index, w) \cup {url}
                            ELSE S.index[w]]]

\* IndexStore::store, lines 256-266: the loop over the lowercased words
RECURSIVE StoreWordsLoop(_, _, _)
StoreWordsLoop(S, url, words) ==
    IF words = <<>> THEN S
    ELSE LET word == ToLowercase(Head(words)) IN
         StoreWordsLoop([S EXCEPT !.index = EntryExtend(@, word, {url}),
                                  !.invert_index = EntryExtend(@, url, {word})],
                        url, Tail(words))

\* the outlinks loop stopping after the first outlink
StoreBacklinksLoopFirstOnly(S, url, outlinks) ==
    IF outlinks = <<>> THEN S
    ELSE [S EXCEPT !.backlinks = EntryExtend(@, Head(outlinks), {url})]

\* IndexStore::store, lines 273-278: the loop over the outlinks
RECURSIVE StoreBacklinksLoop(_, _, _)
StoreBacklinksLoop(S, url, outlinks) ==
    IF outlinks = <<>> THEN S
    ELSE StoreBacklinksLoop([S EXCEPT !.backlinks = EntryExtend(@, Head(outlinks), {url})],
                            url, Tail(outlinks))

\* IndexStore::store
Store(S, page, words, outlinks, collide) ==
    LET S1 == [S EXCEPT !.indexed_pages = HashSetInsert(@, page, collide),
                        !.url2pages = MapInsert(@, page.url, page)]
        S2 == StoreWordsLoop(S1, page.url, words)
        S3 == [S2 EXCEPT !.outlinks = EntryExtend(@, page.url, Range(outlinks))]
    IN StoreBacklinksLoop(S3, page.url, outlinks)

\* IndexStore::consult_backlinks
IndexStoreConsultBacklinks(S, url) == GetOrDefault(S.backlinks, url)

\* IndexStore::consult_outlinks
IndexStoreConsultOutlinks(S, url) == GetOrDefault(S.outlinks, url)

\* IndexStore::search, lines 186-191: the posting lists of the lowercased
\* words that have one
RECURSIVE SetsOfUrls(_, _)
SetsOfUrls(S, words) ==
    IF words = <<>> THEN <<>>
    ELSE LET word == ToLowercase(Head(words)) IN
         IF word \in DOMAIN S.index
         THEN <<S.index[word]>> \o SetsOfUrls(S, Tail(words))
         ELSE SetsOfUrls(S, Tail(words))

\* IndexStore::search, lines 199-202: the fold of the posting lists by &
RECURSIVE Intersection(_, _)
Intersection(acc, sets) ==
    IF sets = <<>> THEN acc
    ELSE Intersection(acc \cap Head(sets), Tail(sets))

\* search with the test for a word without posting list left out
IndexStoreSearchSkipsMissing(S, words) ==
    IF words = <<>> THEN {}
    ELSE LET sets_of_urls == SetsOfUrls(S, words) IN
         IF sets_of_urls = <<>> THEN {}
         ELSE {S.url2pages[url] :
                  url \in {u \in Intersection(Head(sets_of_urls), Tail(sets_of_urls)) :
                              u \in DOMAIN S.url2pages}}

\* IndexStore::search
IndexStoreSearch(S, words) ==
    IF words = <<>> THEN {}
    ELSE LET sets_of_urls == SetsOfUrls(S, words) IN
         IF Len(sets_of_urls) < Len(words) THEN {}
         ELSE {S.url2pages[url] :
                  url \in {u \in Intersection(Head(sets_of_urls), Tail(sets_of_urls)) :
                              u \in DOMAIN S.url2pages}}

\* the sort key taken from the outlinks of the page
BacklinkCountFromOutlinks(S, page) == Cardinality(GetOrDefault(S.outlinks, page.url))

\* IndexStore::search_by_relevance, line 229: backlinks.get(url).map_or(0, len)
BacklinkCount(S, page) == Cardinality(GetOrDefault(S.backlinks, page.url))

\* slice::sort_by with |a, b| b_size.cmp(a_size): a stable sort, larger
\* sizes first; InsertBySize puts a page into a sorted list behind every page
\* that does not sort after it
RECURSIVE InsertBySize(_, _, _)
InsertBySize(S, sorted, page) ==
    IF sorted = <<>> THEN <<page>>
    ELSE IF BacklinkCount(S, Head(sorted)) >= BacklinkCount(S, page)
         THEN <<Head(sorted)>> \o InsertBySize(S, Tail(sorted), page)
         ELSE <<page>> \o sorted

RECURSIVE SortBySize(_, _)
SortBySize(S, pages) ==
    IF pages = <<>> THEN <<>>
    ELSE InsertBySize(S, SortBySize(S, SubSeq(pages, 1, Len(pages) - 1)), pages[Len(pages)])

\* IndexStore::search_by_relevance: the possible results, one for each
\* order in which the HashSet of search is walked
IndexStoreSearchByRelevance(S, words) ==
    {SortBySize(S, order) : order \in Orders(IndexStoreSearch(S, words))}

(***************************************************************************)
(* Persistence of the IndexStore.  serde_json writes the six fields that   *)
(* are not marked #[serde(skip)]: a HashSet as an array in the order the   *)
(* set is walked, a HashMap as an object, one member for each key.  The    *)
(* length of the text is counted in units, one for the braces and one for  *)
(* each page and for each member.                                          *)
(***************************************************************************)
\* the members of the JSON object written for a HashMap
Members(m) == {<<k, m[k]>> : k \in DOMAIN m}

\* the HashMap read back from the members of a JSON object
FromMembers(ms) == [k \in {mb[1] : mb \in ms} |-> (CHOOSE mb \in ms : mb[1] = k)[2]]

\* #[derive(Serialize)] on IndexStore, order being the order in which
\* indexed_pages is walked
Serialize(S, order) ==
    [indexed_pages |-> order,
     url2pages     |-> Members(S.url2pages),
     index         |-> Members(S.index),
     invert_index  |-> Members(S.invert_index),
     backlinks     |-> Members(S.backlinks),
     outlinks      |-> Members(S.outlinks)]

\* json.as_bytes().len()
JsonLen(doc) ==
    1 + Len(doc.indexed_pages) + Cardinality(doc.url2pages) + Cardinality(doc.index)
      + Cardinality(doc.invert_index) + Cardinality(doc.backlinks)
      + Cardinality(doc.outlinks)

\* what the file at a path holds: nothing, a whole JSON text, or a strict
\* prefix of one (an empty or cut file), which serde_json rejects
Absent == [kind |-> "absent"]
Json(doc) == [kind |-> "json", bytes |-> JsonLen(doc), doc |-> doc]
Prefix(n) == [kind |-> "prefix", bytes |-> n]

\* the pages of a list that compare equal to another page of the list
EqualToAnother(order) ==
    {p \in Range(order) : \E q \in Range(order) : q # p /\ PageEq(p, q)}

\* HashSet<Page>::deserialize: the pages inserted one after the other into a
\* new HashSet (with its own RandomState); collides holds the pages whose
\* hash collides with the hash of an equal page already in the table
RECURSIVE InsertAll(_, _, _)
InsertAll(pages, order, collides) ==
    IF order = <<>> THEN pages
    ELSE InsertAll(HashSetInsert(pages, Head(order), Head(order) \in collides),
                   Tail(order), collides)

\* #[derive(Deserialize)] on IndexStore: the skipped fields take their
\* Default value
Deserialize(doc, collides) ==
    [indexed_pages |-> InsertAll({}, doc.indexed_pages, collides),
     url2pages     |-> FromMembers(doc.url2pages),
     index         |-> FromMembers(doc.index),
     invert_index  |-> FromMembers(doc.invert_index),
     backlinks     |-> FromMembers(doc.backlinks),
     outlinks      |-> FromMembers(doc.outlinks),
     filepath      |-> "",
     size_bytes    |-> 0]

\* the load that answers a text it cannot deserialize with a new store
LoadIgnoresMalformed(path, file, collides) ==
    IF file.kind \in {"absent", "prefix"}
    THEN [is_ok |-> TRUE, store |-> IndexStoreNewAt(path)]
    ELSE [is_ok |-> TRUE,
          store |-> [Deserialize(file.doc, collides) EXCEPT
                        !.filepath = path, !.size_bytes = file.bytes]]

\* IndexStore::load: Ok(new(path)) when the file cannot be opened, Err when
\* the text is not deserialized, else the store read, bound to the path
Load(path, file, collides) ==
    IF file.kind = "absent" THEN [is_ok |-> TRUE, store |-> IndexStoreNewAt(path)]
    ELSE IF file.kind = "prefix" THEN [is_ok |-> FALSE]
    ELSE [is_ok |-> TRUE,
          store |-> [Deserialize(file.doc, collides) EXCEPT
                        !.filepath = path, !.size_bytes = file.bytes]]

\* the size Write::write reports for a buffer of len bytes when it does not
\* take all of it: all but the last unit
ShortWrites(len) == {len - 1}

\* IndexStore::save: the outcomes, each with the result, the store after
\* the call and the file after the call.  File::create fails and leaves the
\* file alone, or truncates the file; write then fails, or reports the bytes
\* it took, which need not be all of them.
Save(S, file) ==
    {[is_ok |-> FALSE, store |-> S, file |-> file]}
    \cup {[is_ok |-> FALSE, store |-> S, file |-> Prefix(0)]}
    \cup UNION {
         LET doc == Serialize(S, order) IN
         {[is_ok |-> TRUE, size |-> JsonLen(doc),
           store |-> [S EXCEPT !.size_bytes = JsonLen(doc)], file |-> Json(doc)]}
         \cup {[is_ok |-> TRUE, size |-> n,
                 store |-> [S EXCEPT !.size_bytes = n], file |-> Prefix(n)] :
                    n \in ShortWrites(JsonLen(doc))}
         : order \in Orders(S.indexed_pages)}

VARIABLES
    queue,      \* Queue.queue: the frontier, a sequence of Urls
    seen,       \* Queue.seen: the deduplication set
    qlast,      \* SpecQueue: the last Queue method call and what it returned
    qenq,       \* SpecQueue: per Url, enqueue calls since the Url was last new
                \* to the Queue (at construction, or forgotten by a clear_seen)
    qdeq,       \* SpecQueue: Urls dequeued since the last clear_seen
    qhist,      \* history: Urls in the order their enqueue returned Success
    qout,       \* history: Urls in the order dequeue returned them
    qops,       \* SpecQueue: number of method calls so far
    barrels,    \* LoadBalancer.barrels: the Barrel records, in iteration order
    top_searches,   \* GatewayStatus.top_searches: the counter of each word
    response_time,  \* GatewayStatus.response_time
    lb_lock,    \* the task holding the load_balancer mutex, 0 when free
    loop,       \* the locals of the broadcast / send_until call in progress
    pc,         \* per task: where its handler stands
    req,        \* per task: the request it serves
    ret,        \* per task: the response it builds and returns
    calls,      \* number of requests taken up so far
    woken,      \* history, per task waiting for a status signal: the request
                \* whose handler woke it
    samples,    \* SpecResponseTime: the latencies fed to new_sample so far
    aggregate,  \* SpecResponseTime: the ResponseTime they were fed to
    index_store,    \* SpecIndexStore: the IndexStore
    stores,     \* SpecIndexStore: number of store calls so far
    query,      \* SpecIndexSearch: the last search call and what it returned
    disk,       \* per path: what the file at the path holds
    io,         \* SpecSaveLoad, SpecBarrel: the last save, load or Barrel call
                \* and what it returned
    barrel,     \* SpecBarrel: the Barrel process, "stopped" before
                \* Barrel::from, then "serving", or "aborted" by the panic
    index_lock, \* the task holding the mutex of Barrel.index, 0 when free
    queue_lock, \* SpecLocks: the task holding the mutex of Gateway.queue, 0 when free
    status_lock,    \* SpecLocks: the task holding the mutex of Gateway.status, 0 when free
    workers     \* SpecDownloader: per worker task of the Downloader, where it is in
                \* its loop, its interval, and how its last turn ended

qvars == <<queue, seen, qlast, qenq, qdeq, qhist, qout, qops>>

hvars == <<qlast, qenq, qdeq, qops>>

gvars == <<barrels, top_searches, response_time, lb_lock, loop, pc, req, ret, calls, woken>>

pvars == <<disk, io, barrel, index_lock, queue_lock, status_lock, workers>>

xvars == <<samples, aggregate, index_store, stores, query, disk, io, barrel, index_lock, queue_lock, status_lock, workers>>

vars == <<queue, seen, qlast, qenq, qdeq, qhist, qout, qops,
          barrels, top_searches, response_time, lb_lock, loop, pc, req, ret, calls,
          woken, samples, aggregate, index_store, stores, query, disk, io, barrel, index_lock, queue_lock, status_lock, workers>>

TheQueue == [queue |-> queue, seen |-> seen]

NoCall == [op |-> "none"]

NoReq == [rpc |-> "none"]

NoRet == [rpc |-> "none"]

\* GatewayConfig.queue: the seed Urls a configuration may list.  Gateway::from
\* builds its Queue with Queue::create() and does not read this field.
ConfigQueues == SeqsUpTo(Urls, MaxOutlinks)

\* Gateway::from: the Gateway before it serves its first request
GatewayFrom ==
    /\ barrels = [i \in BarrelIds |-> NewBarrel]
    /\ top_searches = [w \in Words |-> 0]
    /\ response_time = DefaultResponseTime
    /\ lb_lock = 0
    /\ loop = NewLoop
    /\ pc = [t \in AllTasks |-> "idle"]
    /\ req = [t \in AllTasks |-> NoReq]
    /\ ret = [t \in AllTasks |-> NoRet]
    /\ woken = [t \in AllTasks |-> NoReq]
    /\ calls = 0

\* the components outside the Gateway, as constructed
(***************************************************************************)
(* The Downloader (bin/downloader.rs): settings.threads worker tasks, each *)
(* a loop with its own interval.                                           *)
(***************************************************************************)
Workers == 1..NumWorkers

\* seconds
MIN_BACKOFF == 1
MAX_BACKOFF == 60

\* a worker as its task is spawned: let mut interval = MIN_BACKOFF, at the
\* top of the loop
WorkersInit == [w \in Workers |-> [pc |-> "connect", interval |-> MIN_BACKOFF, last |-> "none"]]

XInit ==
    /\ samples = <<>>
    /\ aggregate = DefaultResponseTime
    /\ index_store = IndexStoreNew
    /\ stores = 0
    /\ query = NoCall
    /\ disk = [path \in Paths |-> Absent]
    /\ io = NoCall
    /\ barrel = "stopped"
    /\ index_lock = 0
    /\ queue_lock = 0
    /\ status_lock = 0
    /\ workers = WorkersInit

QInit ==
    /\ GatewayFrom
    /\ XInit
    /\ queue = <<>>
    /\ seen = {}
    /\ qlast = NoCall
    /\ qenq = [u \in Urls |-> 0]
    /\ qdeq = {}
    /\ qhist = <<>>
    /\ qout = <<>>
    /\ qops = 0

\* a call of Queue::enqueue
QEnqueue(url) ==
    LET r == QueueEnqueue(TheQueue, url) IN
    /\ qops < MaxQueueOps
    /\ qops' = qops + 1
    /\ queue' = r.Q.queue
    /\ seen' = r.Q.seen
    /\ qlast' = [op |-> "enqueue", url |-> url, status |-> r.status, list |-> r.list]
    /\ qenq' = [qenq EXCEPT ![url] = @ + 1]
    /\ qhist' = IF r.status = Success THEN Append(qhist, url) ELSE qhist
    /\ UNCHANGED <<qdeq, qout>>
    /\ UNCHANGED <<gvars, xvars>>

\* a call of Queue::dequeue
QDequeue ==
    LET r == QueueDequeue(TheQueue) IN
    /\ qops < MaxQueueOps
    /\ qops' = qops + 1
    /\ queue' = r.Q.queue
    /\ seen' = r.Q.seen
    /\ qlast' = [op |-> "dequeue", url |-> r.url]
    /\ qdeq' = IF r.url = None THEN qdeq ELSE qdeq \cup {r.url}
    /\ qout' = IF r.url = None THEN qout ELSE Append(qout, r.url)
    /\ UNCHANGED <<qenq, qhist>>
    /\ UNCHANGED <<gvars, xvars>>

\* a call of Queue::clear_seen
QClearSeen ==
    LET Q2 == QueueClearSeen(TheQueue) IN
    /\ qops < MaxQueueOps
    /\ qops' = qops + 1
    /\ queue' = Q2.queue
    /\ seen' = Q2.seen
    /\ qlast' = [op |-> "clear_seen"]
    /\ qenq' = [u \in Urls |-> IF u \in Range(queue) THEN qenq[u] ELSE 0]
    /\ qdeq' = {}
    /\ UNCHANGED <<qhist, qout>>
    /\ UNCHANGED <<gvars, xvars>>

\* the outlinks that Gateway::index parses before the first one that fails
RECURSIVE ParsedPrefix(_)
ParsedPrefix(outlinks) ==
    IF outlinks = <<>> \/ UrlParse(Head(outlinks)) = ParseError
    THEN <<>>
    ELSE <<UrlParse(Head(outlinks))>> \o ParsedPrefix(Tail(outlinks))

\* the Queue as Gateway::index drives it, lines 385-389: enqueue every outlink
QIndexOutlinks(outlinks) ==
    LET r == EnqueueOutlinks(TheQueue, outlinks) IN
    /\ qops < MaxQueueOps
    /\ qops' = qops + 1
    /\ queue' = r.Q.queue
    /\ seen' = r.Q.seen
    /\ qlast' = [op |-> "index", outlinks |-> outlinks, panicked |-> r.panicked]
    /\ qenq' = [u \in Urls |-> qenq[u] + Count(u, ParsedPrefix(outlinks))]
    /\ qhist' = qhist \o SubSeq(r.Q.queue, Len(queue) + 1, Len(r.Q.queue))
    /\ UNCHANGED <<qdeq, qout>>
    /\ UNCHANGED <<gvars, xvars>>

QNext ==
    \/ \E url \in Urls : QEnqueue(url)
    \/ \E outlinks \in SeqsUpTo(RawUrls, MaxOutlinks) : QIndexOutlinks(outlinks)
    \/ QDequeue
    \/ QClearSeen

SpecQueue == QInit /\ [][QNext]_vars

(***************************************************************************)
(* The Gateway (gateway/mod.rs).  Each task serves one request.  A step is *)
(* the code between two suspension points; the queue and status mutexes    *)
(* are taken and released within one step, the load_balancer mutex is held *)
(* across the connect and call of every Barrel of a broadcast or           *)
(* send_until.  A request is taken up by the lowest free task.             *)
(***************************************************************************)
Finished == {"idle", "done", "panicked"}

\* task t is free to take up the next request
Idle(t) ==
    /\ calls < MaxCalls
    /\ pc[t] \in Finished
    /\ \A s \in AllTasks : s < t => pc[s] \notin Finished

\* Notify::notify_one in its place: only the first waiting task is woken
NotifyWaitersOne(p) ==
    [t \in AllTasks |->
        IF p[t] = "rts_wait" /\ \A s \in AllTasks : s < t => p[s] # "rts_wait"
        THEN "rts_barrels" ELSE p[t]]

\* Notify::notify_waiters on notification.status: every task waiting in
\* notified() is woken, no permit is stored
NotifyWaiters(p) ==
    [t \in AllTasks |-> IF p[t] = "rts_wait" THEN "rts_barrels" ELSE p[t]]

\* a task woken by a signal remembers the request of the handler that signalled
Wake(w, p, by) ==
    [t \in AllTasks |-> IF p[t] = "rts_wait" THEN by ELSE w[t]]

Init ==
    /\ GatewayFrom
    /\ XInit
    /\ queue = <<>>
    /\ seen = {}
    /\ qlast = NoCall
    /\ qenq = [u \in Urls |-> 0]
    /\ qdeq = {}
    /\ qhist = <<>>
    /\ qout = <<>>
    /\ qops = 0

\* Gateway::enqueue_url, lines 323-332: parse, then Queue::enqueue under the lock
EnqueueUrl(t, url) ==
    LET r == QueueEnqueue(TheQueue, UrlParse(url)) IN
    /\ Idle(t)
    /\ calls' = calls + 1
    /\ req' = [req EXCEPT ![t] = [rpc |-> "enqueue_url", url |-> url]]
    /\ pc' = [pc EXCEPT ![t] = "enq_notify"]
    /\ IF UrlParse(url) = ParseError
       THEN /\ ret' = [ret EXCEPT ![t] = [rpc |-> "enqueue_url", status |-> InvalidUrl,
                                          queue |-> <<>>]]
            /\ UNCHANGED <<queue, seen, qhist>>
       ELSE /\ ret' = [ret EXCEPT ![t] = [rpc |-> "enqueue_url", status |-> r.status,
                                          queue |-> r.list]]
            /\ queue' = r.Q.queue
            /\ seen' = r.Q.seen
            /\ qhist' = IF r.status = Success THEN Append(qhist, UrlParse(url)) ELSE qhist
    /\ UNCHANGED <<barrels, top_searches, response_time, lb_lock, loop>>
    /\ UNCHANGED <<qout, hvars, xvars, woken>>

\* enqueue_url signalling the status watchers whatever the status
EnqueueUrlNotifyAlways(t) ==
    /\ pc[t] = "enq_notify"
    /\ pc' = [NotifyWaiters(pc) EXCEPT ![t] = "done"]
    /\ woken' = Wake(woken, pc, req[t])
    /\ UNCHANGED <<queue, seen, barrels, top_searches, response_time, lb_lock, loop, req, ret>>
    /\ UNCHANGED <<qhist, qout, hvars, xvars, calls>>

\* Gateway::enqueue_url, lines 334-341: signal the status watchers on Success, return
EnqueueUrlNotify(t) ==
    /\ pc[t] = "enq_notify"
    /\ pc' = [IF ret[t].status = Success THEN NotifyWaiters(pc) ELSE pc
                EXCEPT ![t] = "done"]
    /\ woken' = IF ret[t].status = Success THEN Wake(woken, pc, req[t]) ELSE woken
    /\ UNCHANGED <<queue, seen, barrels, top_searches, response_time, lb_lock, loop, req, ret>>
    /\ UNCHANGED <<qhist, qout, hvars, xvars, calls>>

\* Gateway::dequeue_url, lines 294-301: Queue::dequeue under the lock; on None
\* the task waits in notification.queue.notified(), which no code signals
DequeueUrl(t) ==
    LET r == QueueDequeue(TheQueue) IN
    /\ Idle(t)
    /\ calls' = calls + 1
    /\ req' = [req EXCEPT ![t] = [rpc |-> "dequeue_url"]]
    /\ queue' = r.Q.queue
    /\ seen' = r.Q.seen
    /\ IF r.url = None
       THEN /\ pc' = [pc EXCEPT ![t] = "deq_wait"]
            /\ ret' = [ret EXCEPT ![t] = NoRet]
            /\ qout' = qout
       ELSE /\ pc' = [pc EXCEPT ![t] = "deq_notify"]
            /\ ret' = [ret EXCEPT ![t] = [rpc |-> "dequeue_url", url |-> UrlToString(r.url)]]
            /\ qout' = Append(qout, r.url)
    /\ UNCHANGED <<barrels, top_searches, response_time, lb_lock, loop>>
    /\ UNCHANGED <<qhist, hvars, xvars, woken>>

\* Gateway::dequeue_url, lines 304-307: signal the status watchers, return
DequeueUrlNotify(t) ==
    /\ pc[t] = "deq_notify"
    /\ pc' = [NotifyWaiters(pc) EXCEPT ![t] = "done"]
    /\ woken' = Wake(woken, pc, [rpc |-> "dequeue_url", url |-> ret[t].url])
    /\ UNCHANGED <<queue, seen, barrels, top_searches, response_time, lb_lock, loop, req, ret>>
    /\ UNCHANGED <<qhist, qout, hvars, xvars, calls>>

\* Gateway::index, lines 381-390: enqueue the outlinks under the queue lock
Index(t, outlinks) ==
    LET r == EnqueueOutlinks(TheQueue, outlinks) IN
    /\ Idle(t)
    /\ calls' = calls + 1
    /\ req' = [req EXCEPT ![t] = [rpc |-> "index", outlinks |-> outlinks]]
    /\ queue' = r.Q.queue
    /\ seen' = r.Q.seen
    /\ qhist' = qhist \o SubSeq(r.Q.queue, Len(queue) + 1, Len(r.Q.queue))
    /\ pc' = [pc EXCEPT ![t] = IF r.panicked THEN "panicked" ELSE "idx_lock"]
    /\ UNCHANGED <<barrels, top_searches, response_time, lb_lock, loop>>
    /\ ret' = [ret EXCEPT ![t] = NoRet]
    /\ UNCHANGED <<qout, hvars, xvars, woken>>

\* Gateway::index, lines 393-396: take the load_balancer mutex and enter broadcast
IndexLock(t) ==
    /\ pc[t] = "idx_lock"
    /\ lb_lock = 0
    /\ lb_lock' = t
    /\ loop' = NewLoop
    /\ pc' = [pc EXCEPT ![t] = "idx_broadcast"]
    /\ UNCHANGED <<queue, seen, barrels, top_searches, response_time, req, ret>>
    /\ UNCHANGED <<qhist, qout, hvars, xvars, woken, calls>>

\* Gateway::index, lines 393-423: one Barrel of the broadcast; after the last
\* one the mutex is released and IndexResponse { size_bytes: 0 } returned
IndexBroadcast(t, outcome, duration) ==
    LET r == BroadcastStep(barrels, loop, outcome, duration) IN
    /\ pc[t] = "idx_broadcast"
    /\ lb_lock = t
    /\ barrels' = r.barrels
    /\ loop' = r.loop
    /\ IF r.result = "next"
       THEN UNCHANGED <<pc, ret, lb_lock>>
       ELSE /\ pc' = [pc EXCEPT ![t] = "done"]
            /\ lb_lock' = 0
            /\ ret' = [ret EXCEPT ![t] =
                   [rpc |-> "index", size_bytes |-> 0, lb |-> r.result,
                    online |-> IF r.result = "Ok" THEN Len(r.loop.responses) ELSE 0]]
    /\ UNCHANGED <<queue, seen, top_searches, response_time, req>>
    /\ UNCHANGED <<qhist, qout, hvars, xvars, woken, calls>>

\* mutant of Gateway::search: the words are counted in the Offline arm too
SearchArmCountsOffline(result, l, words) ==
    IF result = "Ok"
    THEN [response_time |-> Update(response_time, l.avg_response),
          top_searches |-> AddSearches(top_searches, words),
          notify |-> TRUE,
          status |-> Success,
          pages |-> l.responses[1]]
    ELSE [response_time |-> response_time,
          top_searches |-> AddSearches(top_searches, words),
          notify |-> FALSE,
          status |-> UnavailableBarrels,
          pages |-> <<>>]

\* Gateway::search, lines 509-525: the match on the LBResult of send_until.
\* Gives the new GatewayStatus, the (status, pages) of the response and
\* whether notification.status is signalled.
SearchArm(result, l, words) ==
    IF result = "Ok"
    THEN [response_time |-> Update(response_time, l.avg_response),
          top_searches |-> AddSearches(top_searches, words),
          notify |-> TRUE,
          status |-> Success,
          pages |-> l.responses[1]]
    ELSE [response_time |-> response_time,
          top_searches |-> top_searches,
          notify |-> FALSE,
          status |-> UnavailableBarrels,
          pages |-> <<>>]

\* Gateway::search, lines 496-502: take the load_balancer mutex and enter send_until
Search(t, words) ==
    /\ Idle(t)
    /\ calls' = calls + 1
    /\ lb_lock = 0
    /\ lb_lock' = t
    /\ loop' = NewLoop
    /\ req' = [req EXCEPT ![t] = [rpc |-> "search", words |-> words]]
    /\ pc' = [pc EXCEPT ![t] = "search_send"]
    /\ UNCHANGED <<queue, seen, barrels, top_searches, response_time>>
    /\ ret' = [ret EXCEPT ![t] = NoRet]
    /\ UNCHANGED <<qhist, qout, hvars, xvars, woken>>

\* Gateway::search, lines 499-527: one Barrel of the send_until; when it
\* returns, the match arm, the release of the mutex and the response
SearchSend(t, outcome, duration) ==
    LET r == SendUntilStep(barrels, loop, outcome, duration)
        a == SearchArm(r.result, r.loop, req[t].words)
    IN
    /\ pc[t] = "search_send"
    /\ lb_lock = t
    /\ barrels' = r.barrels
    /\ loop' = r.loop
    /\ IF r.result = "next"
       THEN UNCHANGED <<pc, ret, lb_lock, top_searches, response_time, woken>>
       ELSE /\ response_time' = a.response_time
            /\ top_searches' = a.top_searches
            /\ pc' = [IF a.notify THEN NotifyWaiters(pc) ELSE pc EXCEPT ![t] = "done"]
            /\ woken' = IF a.notify THEN Wake(woken, pc, req[t]) ELSE woken
            /\ lb_lock' = 0
            /\ ret' = [ret EXCEPT ![t] = [rpc |-> "search", status |-> a.status,
                                          pages |-> a.pages]]
    /\ UNCHANGED <<queue, seen, req>>
    /\ UNCHANGED <<qhist, qout, hvars, xvars, calls>>

\* Gateway::consult_backlinks, lines 228-234
ConsultBacklinks(t, url) ==
    /\ Idle(t)
    /\ calls' = calls + 1
    /\ lb_lock = 0
    /\ lb_lock' = t
    /\ loop' = NewLoop
    /\ req' = [req EXCEPT ![t] = [rpc |-> "consult_backlinks", url |-> url]]
    /\ pc' = [pc EXCEPT ![t] = "consult_send"]
    /\ UNCHANGED <<queue, seen, barrels, top_searches, response_time>>
    /\ ret' = [ret EXCEPT ![t] = NoRet]
    /\ UNCHANGED <<qhist, qout, hvars, xvars, woken>>

\* Gateway::consult_outlinks, lines 261-266
ConsultOutlinks(t, url) ==
    /\ Idle(t)
    /\ calls' = calls + 1
    /\ lb_lock = 0
    /\ lb_lock' = t
    /\ loop' = NewLoop
    /\ req' = [req EXCEPT ![t] = [rpc |-> "consult_outlinks", url |-> url]]
    /\ pc' = [pc EXCEPT ![t] = "consult_send"]
    /\ UNCHANGED <<queue, seen, barrels, top_searches, response_time>>
    /\ ret' = [ret EXCEPT ![t] = NoRet]
    /\ UNCHANGED <<qhist, qout, hvars, xvars, woken>>

\* Barrel::consult_backlinks / consult_outlinks (barrel/mod.rs): the Barrel
\* answers Err(Status::invalid_argument) when the url does not parse, so the
\* call can only succeed for a url that parses
BarrelConsultCanSucceed(url) == UrlParse(url) # ParseError

\* Gateway::consult_backlinks / consult_outlinks: one Barrel of the send_until,
\* and the match arm that follows its return
ConsultSend(t, outcome, duration) ==
    LET r == SendUntilStep(barrels, loop, outcome, duration) IN
    /\ pc[t] = "consult_send"
    /\ lb_lock = t
    /\ outcome = "ok" => BarrelConsultCanSucceed(req[t].url)
    /\ barrels' = r.barrels
    /\ loop' = r.loop
    /\ CASE r.result = "next" ->
              UNCHANGED <<pc, ret, lb_lock>>
         [] r.result = "Ok" ->
              /\ pc' = [pc EXCEPT ![t] = "done"]
              /\ lb_lock' = 0
              /\ ret' = [ret EXCEPT ![t] = [rpc |-> req[t].rpc, status |-> Success,
                                            links |-> r.loop.responses[1]]]
         [] r.result = "Offline" ->
              /\ pc' = [pc EXCEPT ![t] = "done"]
              /\ lb_lock' = 0
              /\ ret' = [ret EXCEPT ![t] = [rpc |-> req[t].rpc, status |-> UnavailableBarrels,
                                            links |-> <<>>]]
    /\ UNCHANGED <<queue, seen, top_searches, response_time, req>>
    /\ UNCHANGED <<qhist, qout, hvars, xvars, woken, calls>>

\* real_time_status on a notification that keeps the last signal as a permit
\* (Notify::notify_one): a call made after a signal does not wait
RealTimeStatusStoredPermit(t) ==
    /\ Idle(t)
    /\ calls' = calls + 1
    /\ req' = [req EXCEPT ![t] = [rpc |-> "real_time_status"]]
    /\ pc' = [pc EXCEPT ![t] = IF qhist # <<>> THEN "rts_barrels" ELSE "rts_wait"]
    /\ ret' = [ret EXCEPT ![t] = [rpc |-> "real_time_status", barrels |-> <<>>,
                                  queue |-> <<>>, avg_response_time_ms |-> Zero,
                                  top10_searches |-> <<>>]]
    /\ UNCHANGED <<queue, seen, barrels, top_searches, response_time, lb_lock, loop>>
    /\ UNCHANGED <<qhist, qout, hvars, xvars, woken>>

\* Gateway::real_time_status, line 440: wait in notification.status.notified()
RealTimeStatus(t) ==
    /\ Idle(t)
    /\ calls' = calls + 1
    /\ req' = [req EXCEPT ![t] = [rpc |-> "real_time_status"]]
    /\ pc' = [pc EXCEPT ![t] = "rts_wait"]
    /\ ret' = [ret EXCEPT ![t] = [rpc |-> "real_time_status", barrels |-> <<>>,
                                  queue |-> <<>>, avg_response_time_ms |-> Zero,
                                  top10_searches |-> <<>>]]
    /\ UNCHANGED <<queue, seen, barrels, top_searches, response_time, lb_lock, loop>>
    /\ UNCHANGED <<qhist, qout, hvars, xvars, woken>>

\* Gateway::real_time_status, line 443: snapshot the Barrels under the mutex
RealTimeStatusBarrels(t) ==
    /\ pc[t] = "rts_barrels"
    /\ lb_lock = 0
    /\ ret' = [ret EXCEPT ![t].barrels = GetBarrelsStatus(barrels)]
    /\ pc' = [pc EXCEPT ![t] = "rts_queue"]
    /\ UNCHANGED <<queue, seen, barrels, top_searches, response_time, lb_lock, loop, req>>
    /\ UNCHANGED <<qhist, qout, hvars, xvars, woken, calls>>

\* real_time_status answering with the queue it saw before it waited
RealTimeStatusQueueBeforeWait(t) ==
    /\ pc[t] = "rts_queue"
    /\ ret' = [ret EXCEPT ![t].queue = @]
    /\ pc' = [pc EXCEPT ![t] = "rts_status"]
    /\ UNCHANGED <<queue, seen, barrels, top_searches, response_time, lb_lock, loop, req>>
    /\ UNCHANGED <<qhist, qout, hvars, xvars, woken, calls>>

\* Gateway::real_time_status, line 444: snapshot the queue under the mutex
RealTimeStatusQueue(t) ==
    /\ pc[t] = "rts_queue"
    /\ ret' = [ret EXCEPT ![t].queue = IntoVec(TheQueue)]
    /\ pc' = [pc EXCEPT ![t] = "rts_status"]
    /\ UNCHANGED <<queue, seen, barrels, top_searches, response_time, lb_lock, loop, req>>
    /\ UNCHANGED <<qhist, qout, hvars, xvars, woken, calls>>

\* Gateway::real_time_status, lines 445-464: read the status under the mutex, return
RealTimeStatusStatus(t) ==
    /\ pc[t] = "rts_status"
    /\ \E top \in TopN(top_searches, 10) :
          ret' = [ret EXCEPT ![t].avg_response_time_ms = response_time.miliseconds,
                             ![t].top10_searches = top]
    /\ pc' = [pc EXCEPT ![t] = "done"]
    /\ woken' = [woken EXCEPT ![t] = NoReq]
    /\ UNCHANGED <<queue, seen, barrels, top_searches, response_time, lb_lock, loop, req>>
    /\ UNCHANGED <<qhist, qout, hvars, xvars, calls>>

\* the steps of a task already serving a request
Step(t) ==
    \/ EnqueueUrlNotify(t)
    \/ DequeueUrlNotify(t)
    \/ IndexLock(t)
    \/ \E outcome \in Outcomes, duration \in Durations : IndexBroadcast(t, outcome, duration)
    \/ \E outcome \in Outcomes, duration \in Durations : SearchSend(t, outcome, duration)
    \/ \E outcome \in Outcomes, duration \in Durations : ConsultSend(t, outcome, duration)
    \/ RealTimeStatusBarrels(t)
    \/ RealTimeStatusQueue(t)
    \/ RealTimeStatusStatus(t)

Next ==
    \/ \E t \in Tasks, url \in RawUrls : EnqueueUrl(t, url)
    \/ \E t \in Tasks : EnqueueUrlNotify(t)
    \/ \E t \in Tasks : DequeueUrl(t)
    \/ \E t \in Tasks : DequeueUrlNotify(t)
    \/ \E t \in Tasks, outlinks \in SeqsUpTo(RawUrls, MaxOutlinks) : Index(t, outlinks)
    \/ \E t \in Tasks : IndexLock(t)
    \/ \E t \in Tasks, outcome \in Outcomes, duration \in Durations :
          IndexBroadcast(t, outcome, duration)
    \/ \E t \in Tasks, words \in SeqsUpTo(Words, MaxWords) : Search(t, words)
    \/ \E t \in Tasks, outcome \in Outcomes, duration \in Durations :
          SearchSend(t, outcome, duration)
    \/ \E t \in Tasks, url \in RawUrls : ConsultBacklinks(t, url)
    \/ \E t \in Tasks, url \in RawUrls : ConsultOutlinks(t, url)
    \/ \E t \in Tasks, outcome \in Outcomes, duration \in Durations :
          ConsultSend(t, outcome, duration)
    \/ \E t \in Tasks : RealTimeStatus(t)
    \/ \E t \in Tasks : RealTimeStatusBarrels(t)
    \/ \E t \in Tasks : RealTimeStatusQueue(t)
    \/ \E t \in Tasks : RealTimeStatusStatus(t)

Spec == Init /\ [][Next]_vars

\* the runtime runs every task that can take a step; which requests arrive is
\* not under its control
FairSpec == Spec /\ \A t \in Tasks : WF_vars(Step(t))

(***************************************************************************)
(* The Gateway serving status watchers: the handlers that signal           *)
(* notification.status (enqueue_url, dequeue_url, search) and              *)
(* real_time_status, on NumWatchTasks tasks.                               *)
(***************************************************************************)
\* the word lists of the Search requests of SpecWatch: every list up to
\* MaxWords words, and a list with the same word twice
WordLists == SeqsUpTo(Words, MaxWords) \cup {<<"rust", "rust">>}

WatchNext ==
    \/ \E t \in WatchTasks, url \in RawUrls : EnqueueUrl(t, url)
    \/ \E t \in WatchTasks : EnqueueUrlNotify(t)
    \/ \E t \in WatchTasks : DequeueUrl(t)
    \/ \E t \in WatchTasks : DequeueUrlNotify(t)
    \/ \E t \in WatchTasks, words \in WordLists : Search(t, words)
    \/ \E t \in WatchTasks, outcome \in Outcomes, duration \in Durations :
          SearchSend(t, outcome, duration)
    \/ \E t \in WatchTasks : RealTimeStatus(t)
    \/ \E t \in WatchTasks : RealTimeStatusBarrels(t)
    \/ \E t \in WatchTasks : RealTimeStatusQueue(t)
    \/ \E t \in WatchTasks : RealTimeStatusStatus(t)

SpecWatch == Init /\ [][WatchNext]_vars

FairWatch == SpecWatch /\ \A t \in WatchTasks : WF_vars(Step(t))

(***************************************************************************)
(* The Gateway with its three mutexes (queue, load_balancer, status).  A   *)
(* guard that lives for one call of the Queue or the LoadBalancer          *)
(* (self.queue.lock().await.enqueue(url)) is taken, used and dropped in    *)
(* one step, enabled when the mutex is free.  A guard bound by let is held *)
(* over the steps that follow: the queue guard of index over its loop, the *)
(* status guard of search and of real_time_status up to the end of the     *)
(* arm or of the handler, and the load_balancer guard of a match           *)
(* scrutinee up to the end of the match, which in search includes the      *)
(* wait for the status mutex.                                              *)
(***************************************************************************)
\* Gateway::enqueue_url, lines 323-332, with the queue mutex free
LocksEnqueueUrl(t, url) ==
    /\ UrlParse(url) # ParseError => queue_lock = 0
    /\ EnqueueUrl(t, url)

\* Gateway::dequeue_url, lines 294-301, with the queue mutex free
LocksDequeueUrl(t) ==
    /\ queue_lock = 0
    /\ DequeueUrl(t)

\* Gateway::index, lines 384-389: the queue mutex taken and the outlinks
\* enqueued; the panic on an outlink that does not parse drops the guard
LocksIndex(t, outlinks) ==
    LET r == EnqueueOutlinks(TheQueue, outlinks) IN
    /\ Idle(t)
    /\ queue_lock = 0
    /\ calls' = calls + 1
    /\ req' = [req EXCEPT ![t] = [rpc |-> "index", outlinks |-> outlinks]]
    /\ queue' = r.Q.queue
    /\ seen' = r.Q.seen
    /\ qhist' = qhist \o SubSeq(r.Q.queue, Len(queue) + 1, Len(r.Q.queue))
    /\ pc' = [pc EXCEPT ![t] = IF r.panicked THEN "panicked" ELSE "idx_unlock"]
    /\ queue_lock' = IF r.panicked THEN 0 ELSE t
    /\ ret' = [ret EXCEPT ![t] = NoRet]
    /\ UNCHANGED <<barrels, top_searches, response_time, lb_lock, loop>>
    /\ UNCHANGED <<qout, hvars, woken>>
    /\ UNCHANGED <<samples, aggregate, index_store, stores, query, disk, io, barrel,
                   index_lock, status_lock, workers>>

\* the index handler that goes on to the load_balancer mutex with the queue
\* guard still held
LocksIndexUnlockKeepsGuard(t) ==
    /\ pc[t] = "idx_unlock"
    /\ pc' = [pc EXCEPT ![t] = "idx_lock"]
    /\ UNCHANGED <<queue, seen, barrels, top_searches, response_time, lb_lock, loop, req, ret>>
    /\ UNCHANGED <<qhist, qout, hvars, xvars, woken, calls>>

\* Gateway::index, line 390: the end of the block drops the queue guard
LocksIndexUnlock(t) ==
    /\ pc[t] = "idx_unlock"
    /\ queue_lock' = 0
    /\ pc' = [pc EXCEPT ![t] = "idx_lock"]
    /\ UNCHANGED <<queue, seen, barrels, top_searches, response_time, lb_lock, loop, req, ret>>
    /\ UNCHANGED <<qhist, qout, hvars, woken, calls>>
    /\ UNCHANGED <<samples, aggregate, index_store, stores, query, disk, io, barrel,
                   index_lock, status_lock, workers>>

\* Gateway::search, lines 499-508: one Barrel of the send_until; on Offline
\* the handler returns, on Ok it goes on to the status mutex with the
\* load_balancer guard held
LocksSearchSend(t, outcome, duration) ==
    LET r == SendUntilStep(barrels, loop, outcome, duration)
        a == SearchArm(r.result, r.loop, req[t].words)
    IN
    /\ pc[t] = "search_send"
    /\ lb_lock = t
    /\ barrels' = r.barrels
    /\ loop' = r.loop
    /\ CASE r.result = "next" -> UNCHANGED <<pc, ret, lb_lock>>
         [] r.result = "Ok" ->
              /\ pc' = [pc EXCEPT ![t] = "search_status"]
              /\ UNCHANGED <<ret, lb_lock>>
         [] r.result = "Offline" ->
              /\ pc' = [pc EXCEPT ![t] = "done"]
              /\ lb_lock' = 0
              /\ ret' = [ret EXCEPT ![t] = [rpc |-> "search", status |-> a.status,
                                            pages |-> a.pages]]
    /\ UNCHANGED <<queue, seen, top_searches, response_time, req>>
    /\ UNCHANGED <<qhist, qout, hvars, xvars, woken, calls>>

\* Gateway::search, lines 510-517: the status mutex taken, response_time and
\* top_searches updated
LocksSearchStatus(t) ==
    LET a == SearchArm("Ok", loop, req[t].words) IN
    /\ pc[t] = "search_status"
    /\ status_lock = 0
    /\ status_lock' = t
    /\ response_time' = a.response_time
    /\ top_searches' = a.top_searches
    /\ pc' = [pc EXCEPT ![t] = "search_notify"]
    /\ UNCHANGED <<queue, seen, barrels, lb_lock, loop, req, ret>>
    /\ UNCHANGED <<qhist, qout, hvars, woken, calls>>
    /\ UNCHANGED <<samples, aggregate, index_store, stores, query, disk, io, barrel,
                   index_lock, queue_lock, workers>>

\* Gateway::search, lines 519-527: the signal, the end of the arm and of the
\* match (both guards dropped), the response
LocksSearchNotify(t) ==
    LET a == SearchArm("Ok", loop, req[t].words) IN
    /\ pc[t] = "search_notify"
    /\ pc' = [NotifyWaiters(pc) EXCEPT ![t] = "done"]
    /\ woken' = Wake(woken, pc, req[t])
    /\ status_lock' = 0
    /\ lb_lock' = 0
    /\ ret' = [ret EXCEPT ![t] = [rpc |-> "search", status |-> a.status, pages |-> a.pages]]
    /\ UNCHANGED <<queue, seen, barrels, top_searches, response_time, loop, req>>
    /\ UNCHANGED <<qhist, qout, hvars, calls>>
    /\ UNCHANGED <<samples, aggregate, index_store, stores, query, disk, io, barrel,
                   index_lock, queue_lock, workers>>

\* Gateway::real_time_status, line 444, with the queue mutex free
LocksRealTimeStatusQueue(t) ==
    /\ queue_lock = 0
    /\ RealTimeStatusQueue(t)

\* Gateway::real_time_status, line 445: the status mutex taken
LocksRealTimeStatusStatus(t) ==
    /\ pc[t] = "rts_status"
    /\ status_lock = 0
    /\ status_lock' = t
    /\ pc' = [pc EXCEPT ![t] = "rts_return"]
    /\ UNCHANGED <<queue, seen, barrels, top_searches, response_time, lb_lock, loop, req, ret>>
    /\ UNCHANGED <<qhist, qout, hvars, woken, calls>>
    /\ UNCHANGED <<samples, aggregate, index_store, stores, query, disk, io, barrel,
                   index_lock, queue_lock, workers>>

\* Gateway::real_time_status, lines 448-464: the status read, the response,
\* the guard dropped at the return
LocksRealTimeStatusReturn(t) ==
    /\ pc[t] = "rts_return"
    /\ \E top \in TopN(top_searches, 10) :
          ret' = [ret EXCEPT ![t].avg_response_time_ms = response_time.miliseconds,
                             ![t].top10_searches = top]
    /\ status_lock' = 0
    /\ pc' = [pc EXCEPT ![t] = "done"]
    /\ woken' = [woken EXCEPT ![t] = NoReq]
    /\ UNCHANGED <<queue, seen, barrels, top_searches, response_time, lb_lock, loop, req>>
    /\ UNCHANGED <<qhist, qout, hvars, calls>>
    /\ UNCHANGED <<samples, aggregate, index_store, stores, query, disk, io, barrel,
                   index_lock, queue_lock, workers>>

\* the steps of a task already serving a request
LocksStep(t) ==
    \/ EnqueueUrlNotify(t)
    \/ DequeueUrlNotify(t)
    \/ LocksIndexUnlock(t)
    \/ IndexLock(t)
    \/ \E outcome \in Outcomes, duration \in Durations : IndexBroadcast(t, outcome, duration)
    \/ \E outcome \in Outcomes, duration \in Durations : LocksSearchSend(t, outcome, duration)
    \/ LocksSearchStatus(t)
    \/ LocksSearchNotify(t)
    \/ \E outcome \in Outcomes, duration \in Durations : ConsultSend(t, outcome, duration)
    \/ RealTimeStatusBarrels(t)
    \/ LocksRealTimeStatusQueue(t)
    \/ LocksRealTimeStatusStatus(t)
    \/ LocksRealTimeStatusReturn(t)

\* the requests of SpecLocks: which mutexes a handler takes depends on
\* whether its URL parses and on nothing else in the request, so one URL that
\* parses and one that does not, and one query
LocksUrls == {"http://a", "not a url"}
LocksOutlinks == SeqsUpTo(LocksUrls, 1)
LocksWords == {<<"rust">>}

LocksNext ==
    \/ \E t \in Tasks, url \in LocksUrls : LocksEnqueueUrl(t, url)
    \/ \E t \in Tasks : EnqueueUrlNotify(t)
    \/ \E t \in Tasks : LocksDequeueUrl(t)
    \/ \E t \in Tasks : DequeueUrlNotify(t)
    \/ \E t \in Tasks, outlinks \in LocksOutlinks : LocksIndex(t, outlinks)
    \/ \E t \in Tasks : LocksIndexUnlock(t)
    \/ \E t \in Tasks : IndexLock(t)
    \/ \E t \in Tasks, outcome \in Outcomes, duration \in Durations :
          IndexBroadcast(t, outcome, duration)
    \/ \E t \in Tasks, words \in LocksWords : Search(t, words)
    \/ \E t \in Tasks, outcome \in Outcomes, duration \in Durations :
          LocksSearchSend(t, outcome, duration)
    \/ \E t \in Tasks : LocksSearchStatus(t)
    \/ \E t \in Tasks : LocksSearchNotify(t)
    \/ \E t \in Tasks, url \in LocksUrls : ConsultBacklinks(t, url)
    \/ \E t \in Tasks, url \in LocksUrls : ConsultOutlinks(t, url)
    \/ \E t \in Tasks, outcome \in Outcomes, duration \in Durations :
          ConsultSend(t, outcome, duration)
    \/ \E t \in Tasks : RealTimeStatus(t)
    \/ \E t \in Tasks : RealTimeStatusBarrels(t)
    \/ \E t \in Tasks : LocksRealTimeStatusQueue(t)
    \/ \E t \in Tasks : LocksRealTimeStatusStatus(t)
    \/ \E t \in Tasks : LocksRealTimeStatusReturn(t)

SpecLocks == Init /\ [][LocksNext]_vars

\* the runtime runs every task that can take a step, a Barrel answers or
\* fails every call made to it, and a task waiting at a mutex gets it in its
\* turn (tokio::sync::Mutex is fair); which requests arrive is not under its
\* control
FairLocks == SpecLocks /\ \A t \in Tasks : WF_vars(LocksStep(t))

(***************************************************************************)
(* The worker loop of the Downloader (bin/downloader.rs, lines 158-218).   *)
(* Each step is one await of the loop body with its outcome; the Gateway   *)
(* and the web are the environment that picks the outcome.  pc is the      *)
(* await the worker is at, "panicked" after todo!() or unwrap(),           *)
(* "cancelled" when join_all has aborted the task; last is how the loop    *)
(* body last ended.                                                        *)
(***************************************************************************)
\* HtmlInfo::new: Ok, or the Err of Url::parse, of reqwest::get and of
\* response.text()
HtmlOutcomes == {"ok", "InvalidUrl", "ReqwestError"}

RpcOutcomes == {"ok", "err"}

\* line 208: interval = (interval * 2).min(MAX_BACKOFF).max(MIN_BACKOFF)
NextInterval(interval) ==
    LET doubled == interval * 2
        capped == IF doubled < MAX_BACKOFF THEN doubled ELSE MAX_BACKOFF
    IN  IF capped > MIN_BACKOFF THEN capped ELSE MIN_BACKOFF

\* the loop body has ended with success = false: the else branch up to the
\* sleep
Failed(worker, what) ==
    [pc |-> "sleep", interval |-> NextInterval(worker.interval), last |-> what]

\* the loop body has ended with success = true: interval = MIN_BACKOFF and
\* the next turn of the loop
Succeeded(worker) ==
    [pc |-> "connect", interval |-> MIN_BACKOFF, last |-> "success"]

\* GatewayServiceClient::connect(address.clone()).await
WorkerConnect(w, outcome) ==
    /\ workers[w].pc = "connect"
    /\ workers' = [workers EXCEPT ![w] =
                      IF outcome = "ok" THEN [@ EXCEPT !.pc = "dequeue"]
                      ELSE Failed(@, "connect")]
    /\ UNCHANGED <<qvars, gvars, samples, aggregate, index_store, stores, query, disk, io,
                   barrel, index_lock, queue_lock, status_lock>>

\* client.dequeue_url(request).await, which returns when the Gateway has a
\* URL to hand out or the call fails
WorkerDequeueUrl(w, outcome) ==
    /\ workers[w].pc = "dequeue"
    /\ workers' = [workers EXCEPT ![w] =
                      IF outcome = "ok" THEN [@ EXCEPT !.pc = "fetch"]
                      ELSE Failed(@, "dequeue")]
    /\ UNCHANGED <<qvars, gvars, samples, aggregate, index_store, stores, query, disk, io,
                   barrel, index_lock, queue_lock, status_lock>>

\* HtmlInfo::new(&response.url, &stop_words).await; the Err arm is todo!()
WorkerHtmlInfo(w, outcome) ==
    /\ workers[w].pc = "fetch"
    /\ workers' = [workers EXCEPT ![w] =
                      IF outcome = "ok" THEN [@ EXCEPT !.pc = "index"]
                      ELSE [@ EXCEPT !.pc = "panicked", !.last = "fetch"]]
    /\ UNCHANGED <<qvars, gvars, samples, aggregate, index_store, stores, query, disk, io,
                   barrel, index_lock, queue_lock, status_lock>>

\* client.index(..).await.unwrap(); true; and, success being true, the reset
\* of the interval
WorkerIndex(w, outcome) ==
    /\ workers[w].pc = "index"
    /\ workers' = [workers EXCEPT ![w] =
                      IF outcome = "ok" THEN Succeeded(@)
                      ELSE [@ EXCEPT !.pc = "panicked", !.last = "index"]]
    /\ UNCHANGED <<qvars, gvars, samples, aggregate, index_store, stores, query, disk, io,
                   barrel, index_lock, queue_lock, status_lock>>

\* sleep(interval).await has elapsed
WorkerSleep(w) ==
    /\ workers[w].pc = "sleep"
    /\ workers' = [workers EXCEPT ![w].pc = "connect"]
    /\ UNCHANGED <<qvars, gvars, samples, aggregate, index_store, stores, query, disk, io,
                   barrel, index_lock, queue_lock, status_lock>>

\* join_set.join_all().await in main: a task that panicked makes join_all
\* panic, and the JoinSet dropped by the unwinding aborts the tasks left
JoinAll ==
    /\ \E w \in Workers : workers[w].pc = "panicked"
    /\ \E w \in Workers : workers[w].pc \notin {"panicked", "cancelled"}
    /\ workers' = [w \in Workers |->
                      IF workers[w].pc = "panicked" THEN workers[w]
                      ELSE [workers[w] EXCEPT !.pc = "cancelled"]]
    /\ UNCHANGED <<qvars, gvars, samples, aggregate, index_store, stores, query, disk, io,
                   barrel, index_lock, queue_lock, status_lock>>

DownloaderNext ==
    \/ \E w \in Workers, outcome \in RpcOutcomes : WorkerConnect(w, outcome)
    \/ \E w \in Workers, outcome \in RpcOutcomes : WorkerDequeueUrl(w, outcome)
    \/ \E w \in Workers, outcome \in HtmlOutcomes : WorkerHtmlInfo(w, outcome)
    \/ \E w \in Workers, outcome \in RpcOutcomes : WorkerIndex(w, outcome)
    \/ \E w \in Workers : WorkerSleep(w)
    \/ JoinAll

SpecDownloader == Init /\ [][DownloaderNext]_vars

(***************************************************************************)
(* ResponseTime on its own: latencies fed one by one to new_sample.        *)
(***************************************************************************)
ResponseTimeNewSample(duration) ==
    /\ Len(samples) < MaxSamples
    /\ samples' = Append(samples, duration)
    /\ aggregate' = NewSample(aggregate, duration)
    /\ UNCHANGED <<qvars, gvars, index_store, stores, query, pvars>>

ResponseTimeNext == \E duration \in SampleValues : ResponseTimeNewSample(duration)

SpecResponseTime == Init /\ [][ResponseTimeNext]_vars

(***************************************************************************)
(* TopSearches on its own: add_search calls on a new TopSearches, then one *)
(* top_n call.                                                             *)
(***************************************************************************)
\* the number of add_search calls so far
Searched == top_searches["go"] + top_searches["rust"] + top_searches["web"]

\* TopSearches::new: no word has an entry
TopSearchesInit ==
    /\ XInit
    /\ queue = <<>>
    /\ seen = {}
    /\ qlast = NoCall
    /\ qenq = [u \in Urls |-> 0]
    /\ qdeq = {}
    /\ qhist = <<>>
    /\ qout = <<>>
    /\ qops = 0
    /\ barrels = [i \in BarrelIds |-> NewBarrel]
    /\ top_searches = [w \in TopWords |-> 0]
    /\ response_time = DefaultResponseTime
    /\ lb_lock = 0
    /\ loop = NewLoop
    /\ pc = [t \in AllTasks |-> "idle"]
    /\ req = [t \in AllTasks |-> NoReq]
    /\ ret = [t \in AllTasks |-> NoRet]
    /\ woken = [t \in AllTasks |-> NoReq]
    /\ calls = 0

\* a call of TopSearches::add_search
TopSearchesAddSearch(word) ==
    /\ io = NoCall
    /\ Searched < MaxSearches
    /\ top_searches' = AddSearch(top_searches, word)
    /\ UNCHANGED <<qvars, xvars, barrels, response_time, lb_lock, loop, pc, req, ret,
                   calls, woken>>

\* a call of TopSearches::top_n
TopSearchesTopN(n) ==
    /\ io = NoCall
    /\ \E top \in TopN(top_searches, n) : io' = [op |-> "top_n", n |-> n, top |-> top]
    /\ UNCHANGED <<qvars, gvars, samples, aggregate, index_store, stores, query, disk, barrel, index_lock, queue_lock, status_lock, workers>>

TopSearchesNext ==
    \/ \E word \in TopWords : TopSearchesAddSearch(word)
    \/ \E n \in 0..MaxTopN : TopSearchesTopN(n)

SpecTopSearches == TopSearchesInit /\ [][TopSearchesNext]_vars

(***************************************************************************)
(* IndexStore on its own: any sequence of store calls on the empty store.  *)
(***************************************************************************)
IndexStoreStore(page, words, outlinks, collide) ==
    /\ stores < MaxStores
    /\ stores' = stores + 1
    /\ query = NoCall
    /\ io = NoCall
    /\ index_store' = Store(index_store, page, words, outlinks, collide)
    /\ UNCHANGED <<qvars, gvars, samples, aggregate, query, pvars>>

IndexStoreNext ==
    \E page \in Pages, words \in SeqsUpTo(StoreWords, MaxWords),
       outlinks \in SeqsUpTo(Urls, MaxOutlinks), collide \in BOOLEAN :
        IndexStoreStore(page, words, outlinks, collide)

SpecIndexStore == Init /\ [][IndexStoreNext]_vars

(***************************************************************************)
(* IndexStore queries: a store is built by store calls and then asked one  *)
(* search or search_by_relevance; the searches do not change the store.    *)
(***************************************************************************)
QueryLists == SeqsUpTo(StoreWords, MaxQueryWords)

SearchCall(words) ==
    /\ query = NoCall
    /\ query' = [op |-> "search", words |-> words, pages |-> IndexStoreSearch(index_store, words)]
    /\ UNCHANGED <<qvars, gvars, samples, aggregate, index_store, stores, pvars>>

SearchByRelevanceCall(words) ==
    /\ query = NoCall
    /\ \E pages \in IndexStoreSearchByRelevance(index_store, words) :
          query' = [op |-> "search_by_relevance", words |-> words, pages |-> pages]
    /\ UNCHANGED <<qvars, gvars, samples, aggregate, index_store, stores, pvars>>

IndexSearchNext ==
    \/ IndexStoreNext
    \/ \E words \in QueryLists : SearchCall(words)
    \/ \E words \in QueryLists : SearchByRelevanceCall(words)

SpecIndexSearch == Init /\ [][IndexSearchNext]_vars

(***************************************************************************)
(* IndexStore persistence: a store is built by store calls, saved once,    *)
(* and the file at a path is then loaded.  A load may also come first,     *)
(* when no file has been written.                                          *)
(***************************************************************************)
\* a call of IndexStore::save
IndexStoreSave ==
    /\ io = NoCall
    /\ \E r \in Save(index_store, disk[index_store.filepath]) :
          /\ index_store' = r.store
          /\ disk' = [disk EXCEPT ![index_store.filepath] = r.file]
          /\ io' = [op |-> "save", is_ok |-> r.is_ok, saved |-> index_store]
    /\ UNCHANGED <<qvars, gvars, samples, aggregate, stores, query, barrel, index_lock, queue_lock, status_lock, workers>>

\* a call of IndexStore::load(path); the outcome is kept with the store the
\* preceding save was called on and with the result of that save
IndexStoreLoad(path) ==
    /\ io.op \in {"none", "save"}
    /\ \E collides \in SUBSET (IF disk[path].kind = "json"
                                THEN EqualToAnother(disk[path].doc.indexed_pages)
                                ELSE {}) :
          io' = [op |-> "load", path |-> path, result |-> Load(path, disk[path], collides),
                 after_save |-> io.op = "save",
                 save_ok |-> io.op = "save" /\ io.is_ok,
                 saved |-> IF io.op = "save" THEN io.saved ELSE index_store]
    /\ UNCHANGED <<qvars, gvars, samples, aggregate, index_store, stores, query, disk, barrel, index_lock, queue_lock, status_lock, workers>>

SaveLoadNext ==
    \/ IndexStoreNext
    \/ IndexStoreSave
    \/ \E path \in Paths : IndexStoreLoad(path)

SpecSaveLoad == Init /\ [][SaveLoadNext]_vars

(***************************************************************************)
(* The Barrel (barrel/mod.rs): Barrel::from loads the IndexStore from the  *)
(* configured path, then the handlers serve under the mutex of the store.  *)
(* A handler is one step: it holds the lock from its first access to the   *)
(* store to its end.  A panic in a handler ends the task of the request    *)
(* only: the caller gets no response, the guard of the tokio mutex is      *)
(* dropped and the Barrel goes on serving.                                 *)
(***************************************************************************)
\* a snapshot written by an earlier run: the store after one store call
EarlierStore ==
    Store(IndexStoreNew, [url |-> "http://a/", timestamp |-> [day |-> 1, tick |-> 0]],
          <<"rust">>, <<>>, FALSE)

\* what the Barrel may find at its path when it starts: no file, a file
\* that is not a JSON text, the snapshot of an earlier run
SnapshotFiles ==
    {Absent, Prefix(0)}
    \cup {Json(Serialize(EarlierStore, order)) : order \in Orders(EarlierStore.indexed_pages)}

\* the words and outlinks of the Index requests sent to the Barrel: none,
\* or a word with an outlink that parses followed by one that does not
BarrelRecords ==
    {[words |-> <<>>, outlinks |-> <<>>],
     [words |-> <<"RUST">>, outlinks |-> <<"http://b/", "not a url">>]}

\* the word lists of the Search requests sent to the Barrel
BarrelQueries == SeqsUpTo(StoreWords, 1)

\* Utc::now() in Page::from: not before the time of a page already stored
Now(S) ==
    {t \in Timestamps :
        \A u \in DOMAIN S.url2pages :
            LET s == S.url2pages[u].timestamp IN
            s.day < t.day \/ (s.day = t.day /\ s.tick <= t.tick)}

\* the state before Barrel::from: Barrel::default()
BarrelInit ==
    /\ GatewayFrom
    /\ queue = <<>>
    /\ seen = {}
    /\ qlast = NoCall
    /\ qenq = [u \in Urls |-> 0]
    /\ qdeq = {}
    /\ qhist = <<>>
    /\ qout = <<>>
    /\ qops = 0
    /\ samples = <<>>
    /\ aggregate = DefaultResponseTime
    /\ index_store = IndexStoreDefault
    /\ stores = 0
    /\ query = NoCall
    /\ \E file \in SnapshotFiles : disk = [path \in Paths |-> IF path = StorePath THEN file ELSE Absent]
    /\ io = NoCall
    /\ barrel = "stopped"
    /\ index_lock = 0
    /\ queue_lock = 0
    /\ status_lock = 0
    /\ workers = WorkersInit

\* Barrel::from: IndexStore::load(&config.filepath).unwrap()
BarrelFrom ==
    /\ barrel = "stopped"
    /\ \E collides \in SUBSET (IF disk[StorePath].kind = "json"
                                THEN EqualToAnother(disk[StorePath].doc.indexed_pages)
                                ELSE {}) :
          LET r == Load(StorePath, disk[StorePath], collides) IN
          /\ io' = [op |-> "from", is_ok |-> r.is_ok, file |-> disk[StorePath]]
          /\ IF r.is_ok
             THEN index_store' = r.store /\ barrel' = "serving"
             ELSE barrel' = "aborted" /\ UNCHANGED index_store
    /\ UNCHANGED <<qvars, gvars, samples, aggregate, stores, query, disk, index_lock, queue_lock, status_lock, workers>>

\* Barrel::index: Page::from panics on a page url that does not parse;
\* outlinks that do not parse are dropped; store, then save().unwrap()
BarrelIndex(page_url, timestamp, words, outlinks, collide) ==
    /\ barrel = "serving"
    /\ stores < MaxStores
    /\ timestamp \in Now(index_store)
    /\ collide => \E q \in index_store.indexed_pages :
                      q.url = UrlParse(page_url) /\ q.timestamp.day = timestamp.day
    /\ stores' = stores + 1
    /\ IF UrlParse(page_url) = ParseError
       THEN /\ io' = [op |-> "index", stored |-> FALSE, save_ok |-> FALSE,
                      responded |-> FALSE, page |-> None]
            /\ UNCHANGED <<index_store, disk>>
       ELSE LET page == [url |-> UrlParse(page_url), timestamp |-> timestamp]
                parsed == SelectSeq([k \in 1..Len(outlinks) |-> UrlParse(outlinks[k])],
                                    LAMBDA u : u # ParseError)
                stored == Store(index_store, page, words, parsed, collide)
            IN \E r \in Save(stored, disk[stored.filepath]) :
                  /\ index_store' = r.store
                  /\ disk' = [disk EXCEPT ![stored.filepath] = r.file]
                  /\ io' = [op |-> "index", stored |-> TRUE, save_ok |-> r.is_ok,
                            responded |-> r.is_ok, page |-> page]
    /\ UNCHANGED <<qvars, gvars, samples, aggregate, query, barrel, index_lock, queue_lock, status_lock, workers>>

\* Barrel::search: search_by_relevance under the lock, status Success
BarrelSearch(words) ==
    /\ barrel = "serving"
    /\ \E pages \in IndexStoreSearchByRelevance(index_store, words) :
          io' = [op |-> "search", words |-> words, pages |-> pages, status |-> Success]
    /\ UNCHANGED <<qvars, gvars, samples, aggregate, index_store, stores, query, disk, barrel, index_lock, queue_lock, status_lock, workers>>

BarrelNext ==
    \/ BarrelFrom
    \/ \E page_url \in RawUrls, timestamp \in Timestamps,
          record \in BarrelRecords, collide \in BOOLEAN :
           BarrelIndex(page_url, timestamp, record.words, record.outlinks, collide)
    \/ \E words \in BarrelQueries : BarrelSearch(words)

SpecBarrel == BarrelInit /\ [][BarrelNext]_vars

(***************************************************************************)
(* The Barrel stopped and started again on the same file: the process and  *)
(* its store in memory are gone, Barrel::from loads what the file holds.   *)
(***************************************************************************)
\* the Barrel process is stopped while it serves, and Barrel::from runs again
\* with the same configuration; the outcome is kept with the store the
\* stopped process held and with whether it had just answered an Index
BarrelRestart ==
    /\ barrel = "serving"
    /\ \E collides \in SUBSET (IF disk[StorePath].kind = "json"
                                THEN EqualToAnother(disk[StorePath].doc.indexed_pages)
                                ELSE {}) :
          LET r == Load(StorePath, disk[StorePath], collides) IN
          /\ io' = [op |-> "restart", is_ok |-> r.is_ok, before |-> index_store,
                    after_index |-> io.op = "index" /\ io.responded]
          /\ IF r.is_ok
             THEN index_store' = r.store /\ barrel' = "serving"
             ELSE index_store' = IndexStoreDefault /\ barrel' = "aborted"
    /\ UNCHANGED <<qvars, gvars, samples, aggregate, stores, query, disk, index_lock, queue_lock, status_lock, workers>>

BarrelRestartNext ==
    \/ BarrelNext
    \/ BarrelRestart

SpecBarrelRestart == BarrelInit /\ [][BarrelRestartNext]_vars

(***************************************************************************)
(* The Barrel serving concurrent requests (barrel/mod.rs).  Each handler   *)
(* is a task; the store is reached only through the tokio mutex            *)
(* Barrel.index, held by index from its lock() to its return, by search    *)
(* likewise, and by the two consult handlers for the one statement that    *)
(* reads.  IndexStore::store is taken statement by statement, so that a    *)
(* handler reading without the mutex would see a store half written.       *)
(***************************************************************************)
\* IndexStore::store, lines 253-254: the page into indexed_pages and url2pages
StorePages(S, page, collide) ==
    [S EXCEPT !.indexed_pages = HashSetInsert(@, page, collide),
              !.url2pages = MapInsert(@, page.url, page)]

\* IndexStore::store, lines 268-271: the outlinks of the page
StoreOutlinks(S, url, outlinks) ==
    [S EXCEPT !.outlinks = EntryExtend(@, url, Range(outlinks))]

\* the positions at which an index handler holds the mutex, store under way
Storing == {"bidx_words", "bidx_outlinks", "bidx_backlinks", "bidx_save"}

\* the positions at which a handler holds the mutex
Holding == Storing \cup {"bsearch_read"}

\* tonic::Status::invalid_argument
InvalidArgument == "InvalidArgument"

\* the kinds of consult request: consult_backlinks, consult_outlinks
ConsultKinds == {"consult_backlinks", "consult_outlinks"}

\* Barrel::index, lines 108-126: Page::from stamps the record and panics on a
\* page url that does not parse; outlinks that do not parse are dropped; the
\* handler then waits for the mutex
BarrelTaskIndex(t, page_url, timestamp, words, outlinks) ==
    /\ barrel = "serving"
    /\ Idle(t)
    /\ stores < MaxStores
    /\ timestamp \in Now(index_store)
    /\ calls' = calls + 1
    /\ stores' = stores + 1
    /\ ret' = [ret EXCEPT ![t] = NoRet]
    /\ IF UrlParse(page_url) = ParseError
       THEN /\ req' = [req EXCEPT ![t] = [rpc |-> "index", page_url |-> page_url]]
            /\ pc' = [pc EXCEPT ![t] = "panicked"]
       ELSE /\ req' = [req EXCEPT ![t] =
                   [rpc |-> "index",
                    page |-> [url |-> UrlParse(page_url), timestamp |-> timestamp],
                    words |-> words,
                    outlinks |-> SelectSeq([k \in 1..Len(outlinks) |-> UrlParse(outlinks[k])],
                                           LAMBDA u : u # ParseError)]]
            /\ pc' = [pc EXCEPT ![t] = "bidx_lock"]
    /\ UNCHANGED <<qvars, barrels, top_searches, response_time, lb_lock, loop, woken>>
    /\ UNCHANGED <<samples, aggregate, index_store, query, pvars>>

\* Barrel::index, line 128 and IndexStore::store, lines 253-254: the mutex is
\* taken, the page goes into indexed_pages and url2pages
BarrelTaskIndexLock(t, collide) ==
    /\ pc[t] = "bidx_lock"
    /\ index_lock = 0
    /\ collide => \E q \in index_store.indexed_pages : PageEq(q, req[t].page)
    /\ index_lock' = t
    /\ index_store' = StorePages(index_store, req[t].page, collide)
    /\ pc' = [pc EXCEPT ![t] = "bidx_words"]
    /\ UNCHANGED <<qvars, barrels, top_searches, response_time, lb_lock, loop, req, ret,
                   calls, woken>>
    /\ UNCHANGED <<samples, aggregate, stores, query, disk, io, barrel, queue_lock, status_lock, workers>>

\* IndexStore::store, lines 256-266: index and invert_index
BarrelTaskIndexWords(t) ==
    /\ pc[t] = "bidx_words"
    /\ index_store' = StoreWordsLoop(index_store, req[t].page.url, req[t].words)
    /\ pc' = [pc EXCEPT ![t] = "bidx_outlinks"]
    /\ UNCHANGED <<qvars, barrels, top_searches, response_time, lb_lock, loop, req, ret,
                   calls, woken>>
    /\ UNCHANGED <<samples, aggregate, stores, query, pvars>>

\* IndexStore::store, lines 268-271: outlinks
BarrelTaskIndexOutlinks(t) ==
    /\ pc[t] = "bidx_outlinks"
    /\ index_store' = StoreOutlinks(index_store, req[t].page.url, req[t].outlinks)
    /\ pc' = [pc EXCEPT ![t] = "bidx_backlinks"]
    /\ UNCHANGED <<qvars, barrels, top_searches, response_time, lb_lock, loop, req, ret,
                   calls, woken>>
    /\ UNCHANGED <<samples, aggregate, stores, query, pvars>>

\* IndexStore::store, lines 273-278: backlinks
BarrelTaskIndexBacklinks(t) ==
    /\ pc[t] = "bidx_backlinks"
    /\ index_store' = StoreBacklinksLoop(index_store, req[t].page.url, req[t].outlinks)
    /\ pc' = [pc EXCEPT ![t] = "bidx_save"]
    /\ UNCHANGED <<qvars, barrels, top_searches, response_time, lb_lock, loop, req, ret,
                   calls, woken>>
    /\ UNCHANGED <<samples, aggregate, stores, query, pvars>>

\* Barrel::index, lines 131-133: save().unwrap() under the mutex, then the
\* response; the guard is dropped at the return and by the unwinding of a panic
BarrelTaskIndexSave(t) ==
    /\ pc[t] = "bidx_save"
    /\ \E r \in Save(index_store, disk[index_store.filepath]) :
          /\ index_store' = r.store
          /\ disk' = [disk EXCEPT ![index_store.filepath] = r.file]
          /\ pc' = [pc EXCEPT ![t] = IF r.is_ok THEN "done" ELSE "panicked"]
          /\ ret' = [ret EXCEPT ![t] = IF r.is_ok THEN [rpc |-> "index", size_bytes |-> 0]
                                                  ELSE NoRet]
    /\ index_lock' = 0
    /\ UNCHANGED <<qvars, barrels, top_searches, response_time, lb_lock, loop, req,
                   calls, woken>>
    /\ UNCHANGED <<samples, aggregate, stores, query, io, barrel, queue_lock, status_lock, workers>>

\* Barrel::search, lines 140-142: the request is taken up
BarrelTaskSearch(t, words) ==
    /\ barrel = "serving"
    /\ Idle(t)
    /\ calls' = calls + 1
    /\ req' = [req EXCEPT ![t] = [rpc |-> "search", words |-> words]]
    /\ ret' = [ret EXCEPT ![t] = NoRet]
    /\ pc' = [pc EXCEPT ![t] = "bsearch_lock"]
    /\ UNCHANGED <<qvars, barrels, top_searches, response_time, lb_lock, loop, woken>>
    /\ UNCHANGED xvars

\* Barrel::search, line 144: the mutex is taken
BarrelTaskSearchLock(t) ==
    /\ pc[t] = "bsearch_lock"
    /\ index_lock = 0
    /\ index_lock' = t
    /\ pc' = [pc EXCEPT ![t] = "bsearch_read"]
    /\ UNCHANGED <<qvars, barrels, top_searches, response_time, lb_lock, loop, req, ret,
                   calls, woken>>
    /\ UNCHANGED <<samples, aggregate, index_store, stores, query, disk, io, barrel, queue_lock, status_lock, workers>>

\* Barrel::search, lines 148-158: search_by_relevance, the response, and the
\* guard dropped at the return
BarrelTaskSearchRead(t) ==
    /\ pc[t] = "bsearch_read"
    /\ \E pages \in IndexStoreSearchByRelevance(index_store, req[t].words) :
          ret' = [ret EXCEPT ![t] = [rpc |-> "search", status |-> Success, pages |-> pages]]
    /\ index_lock' = 0
    /\ pc' = [pc EXCEPT ![t] = "done"]
    /\ UNCHANGED <<qvars, barrels, top_searches, response_time, lb_lock, loop, req,
                   calls, woken>>
    /\ UNCHANGED <<samples, aggregate, index_store, stores, query, disk, io, barrel, queue_lock, status_lock, workers>>

\* Barrel::consult_backlinks, lines 43-48, consult_outlinks, lines 69-74: a
\* url that does not parse is answered with invalid_argument
BarrelTaskConsult(t, kind, url) ==
    /\ barrel = "serving"
    /\ Idle(t)
    /\ calls' = calls + 1
    /\ req' = [req EXCEPT ![t] = [rpc |-> kind, url |-> url]]
    /\ IF UrlParse(url) = ParseError
       THEN /\ pc' = [pc EXCEPT ![t] = "done"]
            /\ ret' = [ret EXCEPT ![t] = [rpc |-> kind, status |-> InvalidArgument,
                                          links |-> {}]]
       ELSE /\ pc' = [pc EXCEPT ![t] = "bconsult_lock"]
            /\ ret' = [ret EXCEPT ![t] = NoRet]
    /\ UNCHANGED <<qvars, barrels, top_searches, response_time, lb_lock, loop, woken>>
    /\ UNCHANGED xvars

\* a consult handler reading the store without taking the mutex
BarrelTaskConsultReadUnlocked(t) ==
    /\ pc[t] = "bconsult_lock"
    /\ ret' = [ret EXCEPT ![t] =
           [rpc |-> req[t].rpc, status |-> Success,
            links |-> IF req[t].rpc = "consult_backlinks"
                      THEN IndexStoreConsultBacklinks(index_store, UrlParse(req[t].url))
                      ELSE IndexStoreConsultOutlinks(index_store, UrlParse(req[t].url))]]
    /\ pc' = [pc EXCEPT ![t] = "done"]
    /\ UNCHANGED <<qvars, barrels, top_searches, response_time, lb_lock, loop, req,
                   calls, woken>>
    /\ UNCHANGED xvars

\* Barrel::consult_backlinks, lines 50-60, consult_outlinks, lines 76-87: the
\* mutex is taken for the statement that reads the links, then the response
BarrelTaskConsultRead(t) ==
    /\ pc[t] = "bconsult_lock"
    /\ index_lock = 0
    /\ ret' = [ret EXCEPT ![t] =
           [rpc |-> req[t].rpc, status |-> Success,
            links |-> IF req[t].rpc = "consult_backlinks"
                      THEN IndexStoreConsultBacklinks(index_store, UrlParse(req[t].url))
                      ELSE IndexStoreConsultOutlinks(index_store, UrlParse(req[t].url))]]
    /\ pc' = [pc EXCEPT ![t] = "done"]
    /\ UNCHANGED <<qvars, barrels, top_searches, response_time, lb_lock, loop, req,
                   calls, woken>>
    /\ UNCHANGED xvars

BarrelTasksNext ==
    \/ BarrelFrom
    \/ \E t \in Tasks, page_url \in RawUrls, timestamp \in Timestamps,
          record \in BarrelRecords :
           BarrelTaskIndex(t, page_url, timestamp, record.words, record.outlinks)
    \/ \E t \in Tasks, collide \in BOOLEAN : BarrelTaskIndexLock(t, collide)
    \/ \E t \in Tasks : BarrelTaskIndexWords(t)
    \/ \E t \in Tasks : BarrelTaskIndexOutlinks(t)
    \/ \E t \in Tasks : BarrelTaskIndexBacklinks(t)
    \/ \E t \in Tasks : BarrelTaskIndexSave(t)
    \/ \E t \in Tasks, words \in BarrelQueries : BarrelTaskSearch(t, words)
    \/ \E t \in Tasks : BarrelTaskSearchLock(t)
    \/ \E t \in Tasks : BarrelTaskSearchRead(t)
    \/ \E t \in Tasks, kind \in ConsultKinds, url \in RawUrls : BarrelTaskConsult(t, kind, url)
    \/ \E t \in Tasks : BarrelTaskConsultRead(t)

SpecBarrelTasks == BarrelInit /\ [][BarrelTasksNext]_vars

(***************************************************************************)
(* Properties of the Queue (SpecQueue)                                     *)
(***************************************************************************)
\* the step is a call of the Queue method op
QCall(op) == qops' = qops + 1 /\ qlast'.op = op

\* C2: enqueue is idempotent per Url.  However many times a Url is enqueued
\* while the Queue remembers it, it has exactly one entry in the queue until
\* it is dequeued; the first call returns Success, every later call returns
\* AlreadyIndexedUrl and leaves queue and seen as they were.
C2_EnqueueIdempotent ==
    /\ [](\A u \in Urls : (qenq[u] >= 1 /\ u \notin qdeq) => Count(u, queue) = 1)
    /\ [][QCall("enqueue") =>
            IF qenq[qlast'.url] = 0
            THEN /\ qlast'.status = Success
                 /\ Count(qlast'.url, queue') = 1
            ELSE /\ qlast'.status = AlreadyIndexedUrl
                 /\ queue' = queue
                 /\ seen' = seen]_vars

\* a third enqueue of the same Url was answered AlreadyIndexedUrl
C2_Witness ==
    /\ qlast.op = "enqueue"
    /\ qlast.status = AlreadyIndexedUrl
    /\ qenq[qlast.url] >= 3
    /\ Count(qlast.url, queue) = 1

C4_Fifo ==
    /\ [](qout \o queue = qhist)
    /\ [](qlast.op = "enqueue" =>
            /\ Len(qlast.list) = Len(queue)
            /\ \A i \in 1..Len(queue) : UrlParse(qlast.list[i]) = queue[i])
    /\ [][QCall("dequeue") =>
            IF queue = <<>>
            THEN qlast'.url = None /\ queue' = queue /\ seen' = seen
            ELSE qlast'.url = Head(queue) /\ queue' = Tail(queue)]_vars

\* two different Urls were handed out and a further dequeue found the queue empty
C4_Witness ==
    /\ Len(qout) >= 2
    /\ qout[1] # qout[2]
    /\ qlast.op = "dequeue"
    /\ qlast.url = None

\* C5: deduplication outlives the dequeue.  dequeue leaves seen alone; a Url
\* dequeued since the last clear_seen stays in seen and out of the queue, and
\* an enqueue of it is answered AlreadyIndexedUrl without touching the queue;
\* right after a clear_seen, enqueue of a Url that is not queued succeeds.
C5_DedupPersists ==
    /\ [](\A u \in qdeq : u \in seen /\ u \notin Range(queue))
    /\ [][QCall("dequeue") => seen' = seen]_vars
    /\ [][(QCall("enqueue") /\ qlast'.url \in qdeq) =>
            /\ qlast'.status = AlreadyIndexedUrl
            /\ queue' = queue]_vars
    /\ [][(QCall("enqueue") /\ qlast.op = "clear_seen" /\ qlast'.url \notin Range(queue)) =>
            /\ qlast'.status = Success
            /\ queue' = Append(queue, qlast'.url)]_vars

\* a Url that was enqueued and dequeued is admitted a second time
C5_Witness ==
    /\ qlast.op = "enqueue"
    /\ qlast.status = Success
    /\ qlast.url \in Range(qout)
    /\ Count(qlast.url, qhist) = 2

(***************************************************************************)
(* Properties of the Gateway (Spec, FairSpec)                              *)
(***************************************************************************)
\* task t takes up an EnqueueUrl request in this step
TakesEnqueueUrl(t) == pc[t] \in Finished /\ pc'[t] = "enq_notify"

\* C6 as stated: an EnqueueUrl of a Url that a dequeue has handed out is
\* answered AlreadyIndexedUrl with a snapshot that still contains the Url.
C6_SnapshotStillContainsUrl ==
    [][\A t \in Tasks :
          (TakesEnqueueUrl(t) /\ UrlParse(req'[t].url) \in Range(qout)) =>
              /\ ret'[t].status = AlreadyIndexedUrl
              /\ UrlToString(UrlParse(req'[t].url)) \in Range(ret'[t].queue)]_vars

\* C6 as amended: an EnqueueUrl of a Url that a dequeue has handed out is
\* answered AlreadyIndexedUrl, the Url stays in seen, and the snapshot (the
\* queue as it is) does not contain the Url.
C6_SnapshotOmitsDequeuedUrl ==
    [][\A t \in Tasks :
          (TakesEnqueueUrl(t) /\ UrlParse(req'[t].url) \in Range(qout)) =>
              /\ ret'[t].status = AlreadyIndexedUrl
              /\ UrlParse(req'[t].url) \in seen'
              /\ UrlToString(UrlParse(req'[t].url)) \notin Range(ret'[t].queue)
              /\ ret'[t].queue = IntoVec(TheQueue)]_vars

\* an EnqueueUrl of a handed-out Url was answered AlreadyIndexedUrl
C6_Witness ==
    \E t \in Tasks :
        /\ pc[t] = "enq_notify"
        /\ ret[t].status = AlreadyIndexedUrl
        /\ UrlParse(req[t].url) \in Range(qout)
        /\ ret[t].queue = <<>>

\* C1: when an EnqueueUrl has put a new Url in the queue while a DequeueUrl
\* is waiting, the waiting call is woken; it does not stay blocked for ever
\* while the queue holds a Url.
C1_WaitingDequeueWoken ==
    \A t, s \in Tasks :
        (/\ pc[t] = "deq_wait"
         /\ pc[s] = "enq_notify"
         /\ ret[s].status = Success
         /\ queue # <<>>) ~> (pc[t] # "deq_wait" \/ queue = <<>>)

\* task t returns from send_until with LBResult::Ok in this step
SendUntilReturnsOk(t) ==
    /\ pc[t] \in {"search_send", "consult_send"}
    /\ pc'[t] = "done"
    /\ ret'[t].status = Success

\* the payload of a Search or Consult response
Payload(r) == IF r.rpc = "search" THEN r.pages ELSE r.links

\* C7: send_until answers with the response of the first Barrel whose connect
\* and call both succeed; when it returns Ok every earlier Barrel is offline
\* and the answering Barrel online.
C7_SendUntilMarksEarlierOffline ==
    [][\A t \in Tasks :
          SendUntilReturnsOk(t) =>
              LET i == Len(loop'.tried) IN
              /\ loop'.tried[i].outcome = "ok"
              /\ Payload(ret'[t]) = ResponseOf(i)
              /\ barrels'[i].online
              /\ \A j \in 1..(i - 1) :
                    /\ loop'.tried[j].outcome # "ok"
                    /\ ~barrels'[j].online]_vars

\* the number of attempts of a broadcast that succeeded
Successes(tried) == Cardinality({k \in 1..Len(tried) : tried[k].outcome = "ok"})

\* C8: broadcast attempts the Barrels in order, each exactly once, whatever
\* failed before; the number of responses is the number of Barrels whose
\* connect and call both succeeded.
C8_BroadcastAttemptsAll ==
    /\ [](\A t \in Tasks : pc[t] = "idx_broadcast" =>
            /\ Len(loop.tried) = loop.i - 1
            /\ Len(loop.tried) < NumBarrels
            /\ \A k \in 1..Len(loop.tried) : loop.tried[k].barrel = k)
    /\ [][\A t \in Tasks :
            (pc[t] = "idx_broadcast" /\ pc'[t] = "done") =>
                /\ Len(loop'.tried) = NumBarrels
                /\ \A k \in BarrelIds : loop'.tried[k].barrel = k
                /\ Len(loop'.responses) = Successes(loop'.tried)
                /\ ret'[t].online = Successes(loop'.tried)]_vars

\* an Index returned after a broadcast in which a Barrel failed before
\* another one succeeded
C8_Witness ==
    \E t \in Tasks :
        /\ pc[t] = "done"
        /\ req[t].rpc = "index"
        /\ ret[t].online >= 1
        /\ Len(loop.tried) = NumBarrels
        /\ loop.tried[1].outcome # "ok"
        /\ Len(loop.responses) = ret[t].online

\* C9: a Search in which every Barrel fails answers UnavailableBarrels with
\* no pages, and from its start to its return the TopSearches counters and
\* the global ResponseTime keep their values.
C9_SearchAllOffline ==
    /\ [][\A t \in Tasks :
            (pc[t] = "search_send" /\ pc'[t] = "done" /\ Successes(loop'.tried) = 0) =>
                /\ ret'[t].status = UnavailableBarrels
                /\ ret'[t].pages = <<>>]_vars
    /\ [][\A t \in Tasks :
            (pc[t] = "search_send" /\ ~(pc'[t] = "done" /\ Successes(loop'.tried) > 0)) =>
                /\ top_searches' = top_searches
                /\ response_time' = response_time]_vars

\* a Search with a word found every Barrel failing, after an earlier Search
\* had been counted
C9_Witness ==
    \E t \in Tasks :
        /\ pc[t] = "done"
        /\ req[t].rpc = "search"
        /\ req[t].words # <<>>
        /\ ret[t].status = UnavailableBarrels
        /\ \E w \in Words : top_searches[w] > 0
        /\ response_time.miliseconds # Zero

\* C10: a Consult with a string that is not a URL answers InvalidUrl and
\* changes no Barrel record.
C10_ConsultInvalidUrl ==
    [][\A t \in Tasks :
          (pc[t] = "consult_send" /\ UrlParse(req[t].url) = ParseError) =>
              /\ barrels' = barrels
              /\ pc'[t] = "done" => ret'[t].status = InvalidUrl]_vars

(***************************************************************************)
(* Properties of the Gateway serving status watchers (SpecWatch,           *)
(* FairWatch) and of Index (Spec)                                          *)
(***************************************************************************)
\* C11: an EnqueueUrl with a string that does not parse as a URL answers
\* InvalidUrl, leaves the queue and the seen set as they were from its start
\* to its return, and wakes no task waiting for the status signal.
C11_EnqueueInvalidUrl ==
    /\ [][\A t \in WatchTasks :
            (TakesEnqueueUrl(t) /\ UrlParse(req'[t].url) = ParseError) =>
                /\ ret'[t].status = InvalidUrl
                /\ queue' = queue
                /\ seen' = seen
                /\ \A s \in WatchTasks : pc[s] = "rts_wait" => pc'[s] = "rts_wait"]_vars
    /\ [][\A t \in WatchTasks :
            (pc[t] = "enq_notify" /\ pc'[t] = "done" /\ UrlParse(req[t].url) = ParseError) =>
                /\ ret'[t].status = InvalidUrl
                /\ queue' = queue
                /\ seen' = seen
                /\ \A s \in WatchTasks : pc[s] = "rts_wait" => pc'[s] = "rts_wait"]_vars

\* an EnqueueUrl with an unparsable string has returned while the
\* RealTimeStatus that came before it is still waiting
C11_Witness ==
    /\ pc[1] = "rts_wait"
    /\ pc[2] = "done"
    /\ req[2].rpc = "enqueue_url"
    /\ UrlParse(req[2].url) = ParseError
    /\ ret[2].status = InvalidUrl

\* task t takes up an Index request in this step
TakesIndex(t) == Idle(t) /\ calls' = calls + 1 /\ req'[t].rpc = "index"

\* the outlinks of a request that parse as URLs
WellFormed(outlinks) ==
    {UrlParse(outlinks[k]) : k \in 1..Len(outlinks)} \ {ParseError}

\* C12: a Gateway Index whose outlink list holds a malformed URL is not
\* aborted by it: every well-formed outlink of the list is admitted to the
\* frontier and the handler goes on to fan the record out to the Barrels.
C12_IndexDropsInvalidOutlinks ==
    [][\A t \in Tasks :
          (TakesIndex(t) /\ \E k \in 1..Len(req'[t].outlinks) :
                                UrlParse(req'[t].outlinks[k]) = ParseError) =>
              /\ pc'[t] = "idx_lock"
              /\ WellFormed(req'[t].outlinks) \subseteq seen']_vars

\* C13: a Gateway Index admits every outlink to the frontier before any
\* Barrel is contacted and then broadcasts; it always answers with
\* size_bytes = 0, also when every Barrel failed, and the outlinks are then
\* still admitted.
C13_IndexAdmitsThenBroadcasts ==
    /\ [][\A t \in Tasks :
            TakesIndex(t) =>
                /\ pc'[t] = "idx_lock"
                /\ barrels' = barrels
                /\ \A k \in 1..Len(req'[t].outlinks) :
                       UrlParse(req'[t].outlinks[k]) \in seen']_vars
    /\ [][\A t \in Tasks :
            (pc[t] = "idx_broadcast" /\ pc'[t] = "done") =>
                /\ ret'[t].size_bytes = 0
                /\ \A k \in 1..Len(req[t].outlinks) :
                       UrlParse(req[t].outlinks[k]) \in seen']_vars

\* no DequeueUrl has handed out a Url and no Search has changed the status
NoDequeueNoSearch ==
    /\ qout = <<>>
    /\ response_time = DefaultResponseTime
    /\ \A w \in Words : top_searches[w] = 0

\* C14 (scenario S6): when an EnqueueUrl of a new valid Url u succeeds, every
\* RealTimeStatus waiting at its signal is woken, and each task so woken
\* goes on to return;
\* if no Dequeue and no Search has taken effect by then, the snapshot it
\* returns has a queue containing u, avg_response_time_ms = 0 and no top
\* searches.
C14_EnqueueWakesEveryWatcher ==
    /\ [][\A s \in WatchTasks :
            (pc[s] = "enq_notify" /\ pc'[s] = "done" /\ ret[s].status = Success) =>
                \A t \in WatchTasks :
                    pc[t] = "rts_wait" => pc'[t] = "rts_barrels" /\ woken'[t] = req[s]]_vars
    /\ [][\A t \in WatchTasks :
            (/\ pc[t] = "rts_status"
             /\ pc'[t] = "done"
             /\ woken[t].rpc = "enqueue_url"
             /\ NoDequeueNoSearch) =>
                /\ UrlToString(UrlParse(woken[t].url)) \in Range(ret'[t].queue)
                /\ ret'[t].avg_response_time_ms = Zero
                /\ ret'[t].top10_searches = <<>>]_vars
    /\ \A t \in WatchTasks :
          (pc[t] = "rts_barrels" /\ woken[t].rpc = "enqueue_url")
              ~> (pc[t] = "done" /\ req[t].rpc = "real_time_status")

\* two RealTimeStatus calls were waiting when one EnqueueUrl succeeded; both
\* were woken by it and one is about to return its snapshot
C14_Witness ==
    /\ pc[1] = "rts_status"
    /\ pc[2] \in {"rts_barrels", "rts_queue", "rts_status"}
    /\ pc[3] = "done"
    /\ req[3].rpc = "enqueue_url"
    /\ ret[3].status = Success
    /\ woken[1] = req[3]
    /\ woken[2] = req[3]
    /\ UrlToString(UrlParse(req[3].url)) \in Range(ret[1].queue)
    /\ NoDequeueNoSearch

\* C15: mutation, then signal, then snapshot.  When a waiting RealTimeStatus
\* is woken, the mutation of the EnqueueUrl, DequeueUrl or Search that
\* signals is already in the Gateway state; the snapshot the woken call
\* takes afterwards shows that mutation or a later state: the enqueued Url
\* is in the queue snapshot unless a Dequeue has handed it out since, the
\* dequeued Url is not in the queue snapshot, the searched words are among
\* the top searches and the average response time is no longer 0.
C15_SnapshotAfterMutation ==
    /\ [][\A t \in WatchTasks :
            (pc[t] = "rts_wait" /\ pc'[t] = "rts_barrels") =>
                /\ woken'[t].rpc \in {"enqueue_url", "dequeue_url", "search"}
                /\ woken'[t].rpc = "enqueue_url" =>
                       UrlParse(woken'[t].url) \in Range(queue') \cup Range(qout')
                /\ woken'[t].rpc = "dequeue_url" =>
                       /\ UrlParse(woken'[t].url) \in Range(qout')
                       /\ UrlParse(woken'[t].url) \notin Range(queue')
                /\ woken'[t].rpc = "search" =>
                       /\ \A w \in Range(woken'[t].words) : top_searches'[w] > 0
                       /\ response_time'.miliseconds # Zero]_vars
    /\ [][\A t \in WatchTasks :
            (pc[t] = "rts_queue" /\ pc'[t] = "rts_status") =>
                /\ woken[t].rpc = "enqueue_url" =>
                       \/ UrlToString(UrlParse(woken[t].url)) \in Range(ret'[t].queue)
                       \/ UrlParse(woken[t].url) \in Range(qout)
                /\ woken[t].rpc = "dequeue_url" =>
                       woken[t].url \notin Range(ret'[t].queue)]_vars
    /\ [][\A t \in WatchTasks :
            (pc[t] = "rts_status" /\ pc'[t] = "done" /\ woken[t].rpc = "search") =>
                /\ \A w \in Range(woken[t].words) : w \in Range(ret'[t].top10_searches)
                /\ ret'[t].avg_response_time_ms # Zero]_vars

\* a RealTimeStatus woken by a DequeueUrl has taken a queue snapshot that
\* no longer holds the Url the DequeueUrl handed out
C15_Witness ==
    \E t \in WatchTasks :
        /\ pc[t] = "rts_status"
        /\ woken[t].rpc = "dequeue_url"
        /\ UrlParse(woken[t].url) \in Range(qout)
        /\ woken[t].url \notin Range(ret[t].queue)

\* task t returns from its Search in this step
SearchReturns(t) == pc[t] = "search_send" /\ pc'[t] = "done"

\* C16: the TopSearches counter of each word is the number of its
\* occurrences in the word lists of the Searches answered by a Barrel.  All
\* counters start at 0; a Search that returns after a Barrel answered adds to
\* each word's counter the occurrences of the word in its list; a Search that
\* ends in UnavailableBarrels, and every other step, leaves the counters.
C16_TopSearchesCountsAnswered ==
    /\ \A w \in Words : top_searches[w] = 0
    /\ [][\A t \in WatchTasks :
            (SearchReturns(t) /\ Successes(loop'.tried) > 0) =>
                /\ ret'[t].status = Success
                /\ \A w \in Words :
                       top_searches'[w] = top_searches[w] + Count(w, req[t].words)]_vars
    /\ [][\A t \in WatchTasks :
            (SearchReturns(t) /\ Successes(loop'.tried) = 0) =>
                /\ ret'[t].status = UnavailableBarrels
                /\ top_searches' = top_searches]_vars
    /\ [][(\A t \in WatchTasks : ~SearchReturns(t)) => top_searches' = top_searches]_vars

\* a Search for the same word twice was answered and counted twice, and a
\* Search for a word that ended in UnavailableBarrels was not counted
C16_Witness ==
    \E t, s \in WatchTasks :
        /\ pc[t] = "done"
        /\ req[t] = [rpc |-> "search", words |-> <<"rust", "rust">>]
        /\ ret[t].status = Success
        /\ pc[s] = "done"
        /\ req[s].rpc = "search"
        /\ req[s].words # <<>>
        /\ ret[s].status = UnavailableBarrels
        /\ top_searches = [w \in Words |-> IF w = "rust" THEN 2 ELSE 0]

\* C17: the global ResponseTime accumulates the Searches answered by a
\* Barrel: it starts empty, and a Search that returns with the aggregate of
\* its send_until (count c, mean m) leaves the global aggregate with its
\* count raised by c and its mean the count-weighted mean of the two, so
\* that after k answered Searches count = k and mean = (d1 + ... + dk) / k.
C17_UpdateAccumulates ==
    /\ response_time = DefaultResponseTime
    /\ [][\A t \in WatchTasks :
            (SearchReturns(t) /\ Successes(loop'.tried) > 0) =>
                /\ response_time'.count = response_time.count + loop'.avg_response.count
                /\ response_time'.miliseconds =
                       WeightedMean(response_time.miliseconds, response_time.count,
                           Frac(loop'.avg_response.miliseconds.num * loop'.avg_response.count,
                                loop'.avg_response.miliseconds.den),
                           response_time.count + loop'.avg_response.count)]_vars

(***************************************************************************)
(* Properties of ResponseTime (SpecResponseTime)                           *)
(***************************************************************************)
RECURSIVE Sum(_)
Sum(s) == IF s = <<>> THEN 0 ELSE Head(s) + Sum(Tail(s))

\* C18: new_sample keeps a running arithmetic mean: after the samples
\* d1..dk fed to the empty aggregate, count = k and the mean is
\* (d1 + ... + dk) / k.
C18_NewSampleRunningMean ==
    /\ aggregate.count = Len(samples)
    /\ samples = <<>> => aggregate = DefaultResponseTime
    /\ samples # <<>> => aggregate.miliseconds = Frac(Sum(samples), Len(samples))

\* the samples 100, 200, 300 gave mean 200 and count 3
C18_Witness ==
    /\ samples = <<100, 200, 300>>
    /\ aggregate = [miliseconds |-> Frac(200, 1), count |-> 3]

(***************************************************************************)
(* Properties of the IndexStore (SpecIndexStore)                           *)
(***************************************************************************)
\* every word that is, or could be, a key or a member of an index entry
AnyWord ==
    StoreWords \cup {ToLowercase(w) : w \in StoreWords}
        \cup DOMAIN index_store.index
        \cup UNION {index_store.invert_index[u] : u \in DOMAIN index_store.invert_index}

\* every Url that is, or could be, a key or a member of an index entry
AnyUrl ==
    Urls \cup DOMAIN index_store.invert_index \cup DOMAIN index_store.outlinks
        \cup DOMAIN index_store.backlinks
        \cup UNION {index_store.index[w] : w \in DOMAIN index_store.index}
        \cup UNION {index_store.outlinks[u] : u \in DOMAIN index_store.outlinks}
        \cup UNION {index_store.backlinks[u] : u \in DOMAIN index_store.backlinks}

\* C19: in every IndexStore built by store calls on the empty store, the
\* word-to-URLs index and the URL-to-words index are mutual inverses: u is in
\* index[w] if and only if w is in invert_index[u].
C19_IndexInverse ==
    \A w \in AnyWord, u \in AnyUrl :
        u \in GetOrDefault(index_store.index, w)
            <=> w \in GetOrDefault(index_store.invert_index, u)

\* a page was stored under one word and then under a second word
C19_Witness ==
    /\ DOMAIN index_store.index = {"rust", "web"}
    /\ index_store.index["rust"] = {"http://a/"}
    /\ index_store.index["web"] = {"http://a/"}
    /\ index_store.invert_index["http://a/"] = {"rust", "web"}

\* C20: in every IndexStore built by store calls on the empty store, the
\* link graph agrees in both directions: o is in outlinks[u] if and only if
\* u is in backlinks[o].
C20_LinkGraphConsistent ==
    \A u \in AnyUrl, o \in AnyUrl :
        o \in GetOrDefault(index_store.outlinks, u)
            <=> u \in GetOrDefault(index_store.backlinks, o)

\* a page with two outlinks and a page with one outlink were stored
C20_Witness ==
    /\ DOMAIN index_store.outlinks = Urls
    /\ index_store.outlinks["http://a/"] = Urls
    /\ index_store.outlinks["http://b/"] = {"http://a/"}
    /\ index_store.backlinks["http://b/"] = {"http://a/"}
    /\ index_store.backlinks["http://a/"] = Urls

\* every entry of the map m1 is still in the map m2
MapIncluded(m1, m2) ==
    \A k \in DOMAIN m1 : k \in DOMAIN m2 /\ m1[k] \subseteq m2[k]

\* every entry of indexed_pages, index, invert_index, backlinks and outlinks
\* of the store S1 is still in the store S2
StoreIncluded(S1, S2) ==
    /\ S1.indexed_pages \subseteq S2.indexed_pages
    /\ MapIncluded(S1.index, S2.index)
    /\ MapIncluded(S1.invert_index, S2.invert_index)
    /\ MapIncluded(S1.backlinks, S2.backlinks)
    /\ MapIncluded(S1.outlinks, S2.outlinks)

\* C21: store has idempotent set-union semantics and never removes: on
\* every store built by store calls, a further store call keeps every entry
\* that was in indexed_pages, index, invert_index, backlinks and outlinks,
\* and the same call applied once more leaves the store as it is.
C21_StoreIdempotentNoRemoval ==
    \A page \in Pages, words \in SeqsUpTo(StoreWords, MaxWords),
       outlinks \in SeqsUpTo(Urls, MaxOutlinks), collide \in BOOLEAN :
        \A S1 \in {Store(index_store, page, words, outlinks, collide)} :
            /\ StoreIncluded(index_store, S1)
            /\ Store(S1, page, words, outlinks, collide) = S1

\* the same store call, with a word and an outlink, has been applied twice
C21_Witness ==
    /\ stores = 2
    /\ \E page \in Pages, words \in SeqsUpTo(StoreWords, MaxWords),
          outlinks \in SeqsUpTo(Urls, MaxOutlinks), collide \in BOOLEAN :
          /\ words # <<>>
          /\ outlinks # <<>>
          /\ index_store = Store(Store(IndexStoreNew, page, words, outlinks, collide),
                                 page, words, outlinks, collide)

(***************************************************************************)
(* Claims on the searches of the IndexStore, checked on SpecIndexSearch.   *)
(***************************************************************************)
\* the words of a list, each in the form the index keeps it
LowercaseOf(w) == IF w \in {"RUST", "Rust", "rust"} THEN "rust" ELSE "web"
LoweredWords(ws) == {LowercaseOf(ws[k]) : k \in 1..Len(ws)}

\* the URLs found in the posting list of every word of the list
PostingUrls(ws) ==
    {u \in Urls : \A w \in LoweredWords(ws) :
        w \in DOMAIN index_store.index /\ u \in index_store.index[w]}

\* C22: search returns the empty set for the empty word list and when some
\* word of the list has no posting list; otherwise it returns exactly the
\* pages, taken from url2pages, whose URLs are in the posting lists of all the
\* words; the search for two words is the intersection of the searches for
\* each of them.
C22_SearchIsIntersection ==
    query.op = "search" =>
        /\ query.words = <<>> => query.pages = {}
        /\ (\E w \in LoweredWords(query.words) : w \notin DOMAIN index_store.index)
               => query.pages = {}
        /\ (/\ query.words # <<>>
            /\ LoweredWords(query.words) \subseteq DOMAIN index_store.index)
               => /\ PostingUrls(query.words) \subseteq DOMAIN index_store.url2pages
                  /\ query.pages = {index_store.url2pages[u] : u \in PostingUrls(query.words)}
        /\ Len(query.words) = 2
               => query.pages = IndexStoreSearch(index_store, <<query.words[1]>>)
                                   \cap IndexStoreSearch(index_store, <<query.words[2]>>)

\* a search for two different words that both have a posting list found a page
C22_Witness ==
    /\ query.op = "search"
    /\ Len(query.words) = 2
    /\ LowercaseOf(query.words[1]) # LowercaseOf(query.words[2])
    /\ query.pages # {}

\* two word lists that differ only in the case of their letters
SameButCase(ws, vs) ==
    /\ Len(ws) = Len(vs)
    /\ \A k \in 1..Len(ws) : LowercaseOf(ws[k]) = LowercaseOf(vs[k])

\* C23: the index keeps lowercase words only, whatever case was stored, and
\* a search gives the same pages for every word list that differs from the
\* one asked only in letter case.
C23_CaseInsensitive ==
    /\ DOMAIN index_store.index \subseteq {"rust", "web"}
    /\ \A url \in DOMAIN index_store.invert_index :
           index_store.invert_index[url] \subseteq {"rust", "web"}
    /\ query.op = "search" =>
           \A ws \in QueryLists :
               SameButCase(ws, query.words)
                   => IndexStoreSearch(index_store, ws) = query.pages

\* a search for the upper-case word found a page
C23_Witness ==
    /\ query.op = "search"
    /\ query.words = <<"RUST">>
    /\ query.pages # {}

\* the size of the backlink set of a page, 0 without an entry
BacklinkSetSize(page) ==
    IF page.url \in DOMAIN index_store.backlinks
    THEN Cardinality(index_store.backlinks[page.url])
    ELSE 0

\* C24: search_by_relevance returns the pages of search for the same words,
\* each once, in an order in which the size of the backlink set of the pages
\* never increases.
C24_RelevanceOrder ==
    query.op = "search_by_relevance" =>
        /\ Range(query.pages) = IndexStoreSearch(index_store, query.words)
        /\ Len(query.pages) = Cardinality(Range(query.pages))
        /\ \A i, j \in 1..Len(query.pages) :
               i < j => BacklinkSetSize(query.pages[i]) >= BacklinkSetSize(query.pages[j])

\* a page with one backlink is returned before a page with none
C24_Witness ==
    /\ query.op = "search_by_relevance"
    /\ Len(query.pages) = 2
    /\ BacklinkSetSize(query.pages[1]) = 1
    /\ BacklinkSetSize(query.pages[2]) = 0

(***************************************************************************)
(* Claims on the persistence of the IndexStore, checked on SpecSaveLoad.   *)
(***************************************************************************)
\* the six fields of an IndexStore that are persisted
PersistedFields(S) ==
    [indexed_pages |-> S.indexed_pages, url2pages |-> S.url2pages, index |-> S.index,
     invert_index |-> S.invert_index, backlinks |-> S.backlinks, outlinks |-> S.outlinks]

\* C25: loading the file written by a save that returned Ok and wrote the
\* whole text gives a store
\* that agrees with the saved one on the six persisted fields, bound to the
\* path loaded and with size_bytes the number of bytes read; the file holds
\* neither filepath nor size_bytes.
C25_SaveLoadRoundTrip ==
    /\ \A path \in Paths :
           disk[path].kind = "json"
               => DOMAIN disk[path].doc = {"indexed_pages", "url2pages", "index",
                                           "invert_index", "backlinks", "outlinks"}
    /\ (/\ io.op = "load" /\ io.save_ok /\ io.path = io.saved.filepath
        /\ disk[io.path].kind = "json")
           => /\ io.result.is_ok
              /\ PersistedFields(io.result.store) = PersistedFields(io.saved)
              /\ io.result.store.filepath = io.path
              /\ io.result.store.size_bytes = disk[io.path].bytes

(***************************************************************************)
(* Claims on the Barrel, checked on SpecBarrel.                            *)
(***************************************************************************)
\* C26: a Barrel started where no file is gets a new, empty store bound to
\* its path and serves; a Barrel started on a file that is not deserialized
\* gets an error from load and aborts: it never serves, and the file is never
\* written over.
C26_LoadAbsentOrMalformed ==
    /\ io.op = "from" =>
           /\ io.file.kind = "absent"
                  => /\ io.is_ok
                     /\ barrel = "serving"
                     /\ index_store = IndexStoreNewAt(StorePath)
                     /\ PersistedFields(index_store) = PersistedFields(IndexStoreDefault)
           /\ io.file.kind = "prefix" => ~io.is_ok /\ barrel = "aborted"
    /\ barrel = "aborted" =>
           /\ disk[StorePath].kind = "prefix"
           /\ io.op = "from"
           /\ stores = 0
    /\ (barrel = "serving" /\ stores = 0) => disk[StorePath].kind # "prefix"

\* the Barrel found a malformed snapshot and aborted
C26_Witness ==
    /\ barrel = "aborted"
    /\ io.op = "from"
    /\ ~io.is_ok
    /\ disk[StorePath] = Prefix(0)

\* the Barrel found no file and serves an empty store bound to its path
C26_WitnessAbsent ==
    /\ barrel = "serving"
    /\ io.op = "from"
    /\ io.file = Absent
    /\ index_store.filepath = StorePath

\* C27: when save fails in a Barrel Index call, the handler still returns a
\* response, the record stays in the store in memory and the Barrel keeps
\* serving.
C27_SaveFailureOnlyLogged ==
    (io.op = "index" /\ io.stored /\ ~io.save_ok) =>
        /\ io.responded
        /\ io.page.url \in DOMAIN index_store.url2pages
        /\ index_store.url2pages[io.page.url] = io.page
        /\ barrel = "serving"

\* the parts of C27 that do not depend on the response: after a failed save
\* the record is in the store in memory and the Barrel serves
C27_RecordStays ==
    (io.op = "index" /\ io.stored /\ ~io.save_ok) =>
        /\ io.page.url \in DOMAIN index_store.url2pages
        /\ index_store.url2pages[io.page.url] = io.page
        /\ barrel = "serving"

(***************************************************************************)
(* Claims on TopSearches, checked on SpecTopSearches.                      *)
(***************************************************************************)
\* the words with an entry in the counter
Searches == {w \in DOMAIN top_searches : top_searches[w] > 0}

\* C28: top_n(n) returns min(n, number of distinct words) entries, each word
\* at most once, in an order in which the counts never increase, and no word
\* left out has a larger count than a word returned.
C28_TopNHighestSorted ==
    io.op = "top_n" =>
        /\ Len(io.top) = (IF io.n < Cardinality(Searches) THEN io.n ELSE Cardinality(Searches))
        /\ Range(io.top) \subseteq Searches
        /\ \A i, j \in 1..Len(io.top) : i # j => io.top[i] # io.top[j]
        /\ \A i, j \in 1..Len(io.top) :
               i < j => top_searches[io.top[i]] >= top_searches[io.top[j]]
        /\ \A w \in Searches \ Range(io.top) :
               \A i \in 1..Len(io.top) : top_searches[w] <= top_searches[io.top[i]]

\* three words were searched, one of them twice, and top_n(2) left one out
C28_Witness ==
    /\ io.op = "top_n"
    /\ io.n = 2
    /\ top_searches = [w \in TopWords |-> IF w = "rust" THEN 2 ELSE 1]
    /\ io.top = <<"rust", "web">>

(***************************************************************************)
(* Claims on the frontier of the Gateway under concurrent handlers,        *)
(* checked on Spec and FairSpec.                                           *)
(***************************************************************************)
\* C29: under every interleaving of DequeueUrl, EnqueueUrl and Index
\* handlers no Url is returned by two DequeueUrl calls, and every Url
\* returned was admitted to the queue, once, by an EnqueueUrl or an Index.
C29_HandedOutAtMostOnce ==
    \A u \in Urls :
        /\ Count(u, qout) <= 1
        /\ Count(u, qout) <= Count(u, qhist)
        /\ Count(u, qhist) <= 1
        /\ Count(u, qout) + Count(u, queue) = Count(u, qhist)

\* two DequeueUrl handlers at once, each holding a Url of its own
C29_Witness ==
    \E t, s \in Tasks :
        /\ t # s
        /\ pc[t] = "deq_notify"
        /\ pc[s] = "deq_notify"
        /\ ret[t].url # ret[s].url
        /\ Len(qout) = 2

\* C30: when an Index call has admitted an outlink into the empty frontier
\* while a DequeueUrl is waiting, the waiting call is woken; it does not stay
\* blocked for ever while the queue holds the outlink.
C30_IndexWakesWaitingDequeue ==
    \A t, s \in Tasks :
        (/\ pc[t] = "deq_wait"
         /\ pc[s] = "idx_lock"
         /\ req[s].rpc = "index"
         /\ queue # <<>>) ~> (pc[t] # "deq_wait" \/ queue = <<>>)

\* C31: an Index call that adds outlinks to the queue changes the status
\* snapshot, so it wakes every waiting RealTimeStatus handler: a handler that
\* was waiting at the signal when the first Index call of the Gateway admitted
\* an outlink does not go on waiting for ever.
C31_IndexWakesWatchers ==
    \A t, s \in Tasks :
        (/\ pc[t] = "rts_wait"
         /\ pc[s] = "idx_lock"
         /\ req[s].rpc = "index"
         /\ calls = 2
         /\ queue # <<>>) ~> (pc[t] # "rts_wait")

\* task s signals notification.status in this step: the last step of an
\* EnqueueUrl that succeeded, of a DequeueUrl that took a Url, or of a Search
\* that a Barrel answered
Signals(s) ==
    /\ pc'[s] = "done"
    /\ \/ pc[s] = "enq_notify" /\ ret[s].status = Success
       \/ pc[s] = "deq_notify"
       \/ pc[s] = "search_send" /\ ret'[s].status = Success

\* C32: the status notification keeps no queued signal.  A RealTimeStatus
\* call always starts by waiting, whatever was signalled before it; a waiting
\* call leaves its wait only in a step in which another handler signals; and
\* each response a call returns uses up the one signal that woke it.
C32_NoQueuedSignal ==
    /\ [][\A t \in WatchTasks :
            (pc[t] \in Finished /\ pc'[t] \notin Finished
                /\ req'[t].rpc = "real_time_status") =>
                    pc'[t] = "rts_wait" /\ woken'[t] = NoReq]_vars
    /\ [][\A t \in WatchTasks :
            (pc[t] = "rts_wait" /\ pc'[t] # "rts_wait") =>
                /\ pc'[t] = "rts_barrels"
                /\ \E s \in WatchTasks \ {t} : Signals(s)]_vars
    /\ [][\A t \in WatchTasks :
            (pc[t] = "rts_status" /\ pc'[t] = "done") =>
                woken[t] # NoReq /\ woken'[t] = NoReq]_vars

\* a RealTimeStatus woken by an EnqueueUrl is on its way while another, which
\* started after that signal, waits for the next one
C32_Witness ==
    \E t, u \in WatchTasks :
        /\ pc[t] = "rts_wait"
        /\ pc[u] \in {"rts_barrels", "rts_queue", "rts_status"}
        /\ woken[u].rpc = "enqueue_url"
        /\ qhist # <<>>

\* C33: when a broadcast returns, each Barrel's online flag is the outcome of
\* its attempt in that broadcast (online iff connect and call both
\* succeeded).  The result is Ok iff some Barrel succeeded, and then the
\* offline count and the number of responses add up to the number of Barrels
\* and the ResponseTime returned holds one sample per success; with no
\* success the result is Offline.
C33_BroadcastFlagsAndResult ==
    [][\A t \in Tasks :
        (pc[t] = "idx_broadcast" /\ pc'[t] = "done") =>
            /\ \A k \in BarrelIds :
                   barrels'[k].online <=> (loop'.tried[k].outcome = "ok")
            /\ (ret'[t].lb = "Ok") <=> (Successes(loop'.tried) > 0)
            /\ ret'[t].lb \in {"Ok", "Offline"}
            /\ ret'[t].lb = "Ok" =>
                   /\ loop'.offline + Len(loop'.responses) = NumBarrels
                   /\ loop'.avg_response.count = Successes(loop'.tried)
                   /\ loop'.avg_response.count = Len(loop'.responses)]_vars

\* an Index has returned from a broadcast in which one Barrel answered and
\* another failed: the first is online, the second offline
C33_Witness ==
    \E t \in Tasks :
        /\ pc[t] = "done"
        /\ req[t].rpc = "index"
        /\ ret[t].lb = "Ok"
        /\ lb_lock = 0
        /\ loop.offline >= 1
        /\ loop.avg_response.count = NumBarrels - loop.offline
        /\ \E j, k \in BarrelIds :
              /\ loop.tried[j].outcome = "ok" /\ barrels[j].online
              /\ loop.tried[k].outcome # "ok" /\ ~barrels[k].online

\* C34: Page identity in the store is (url, day): indexed_pages never holds
\* two Pages with the same url and the same calendar date.
C34_PageIdentityUrlDay ==
    \A p, q \in index_store.indexed_pages : PageEq(p, q) => p = q

(***************************************************************************)
(* Claims on the Barrel serving concurrent requests (SpecBarrelTasks).     *)
(***************************************************************************)
\* the store S is whole: every url of a posting list has its page in
\* url2pages and the word in its invert_index entry, and every outlink of a
\* page has the page among its backlinks
StoreWhole(S) ==
    /\ \A w \in DOMAIN S.index : \A u \in S.index[w] :
           /\ u \in DOMAIN S.url2pages
           /\ w \in GetOrDefault(S.invert_index, u)
    /\ \A u \in DOMAIN S.outlinks : \A o \in S.outlinks[u] :
           u \in GetOrDefault(S.backlinks, o)

\* task t reads the store in this step
ReadsStore(t) ==
    /\ pc'[t] = "done"
    /\ pc[t] \in {"bsearch_read", "bconsult_lock"}

\* C35: on one Barrel, Index writes serialize against all reads.  The mutex
\* has one holder at a time; the store changes only in the steps of the
\* index handler that holds it; when a search or a consult reads, no store
\* is under way and the store is whole (no url of a posting list without
\* its page, no outlink without its backlink); and the file is written only
\* by the save of the handler that holds the mutex, from the store in which
\* its own record is entirely stored.
C35_WritesSerializeAgainstReads ==
    /\ [](\A t \in Tasks : pc[t] \in Holding => index_lock = t)
    /\ [][\A t \in Tasks :
            ReadsStore(t) =>
                /\ \A s \in Tasks : pc[s] \notin Storing
                /\ StoreWhole(index_store)
                /\ req[t].rpc = "search" =>
                       \A k \in 1..Len(ret'[t].pages) :
                           /\ ret'[t].pages[k].url \in DOMAIN index_store.url2pages
                           /\ index_store.url2pages[ret'[t].pages[k].url] = ret'[t].pages[k]]_vars
    /\ [][(index_store' # index_store /\ barrel = "serving") =>
            \E t \in Tasks :
                /\ pc[t] \in Storing \cup {"bidx_lock"}
                /\ pc'[t] # pc[t]
                /\ index_lock = t \/ (index_lock = 0 /\ index_lock' = t)]_vars
    /\ [][disk' # disk =>
            \E t \in Tasks :
                /\ pc[t] = "bidx_save"
                /\ index_lock = t
                /\ StoreWhole(index_store)
                /\ index_store.url2pages[req[t].page.url] = req[t].page
                /\ Range(req[t].outlinks) \subseteq index_store.outlinks[req[t].page.url]
                /\ disk'[StorePath].kind = "json" =>
                       /\ Range(disk'[StorePath].doc.indexed_pages) = index_store.indexed_pages
                       /\ disk'[StorePath].doc.url2pages = Members(index_store.url2pages)
                       /\ disk'[StorePath].doc.index = Members(index_store.index)
                       /\ disk'[StorePath].doc.invert_index = Members(index_store.invert_index)
                       /\ disk'[StorePath].doc.backlinks = Members(index_store.backlinks)
                       /\ disk'[StorePath].doc.outlinks = Members(index_store.outlinks)]_vars

\* a search and an index are served at once: the index holds the mutex with
\* the outlinks of its page stored and the backlinks not yet, and the search
\* waits for the mutex
C35_Witness ==
    \E t, s \in Tasks :
        /\ pc[t] = "bsearch_lock"
        /\ pc[s] = "bidx_backlinks"
        /\ index_lock = s
        /\ req[s].outlinks # <<>>
        /\ ~StoreWhole(index_store)

(***************************************************************************)
(* Claims on the restart of the Barrel (SpecBarrelRestart).                *)
(***************************************************************************)
\* C36: acknowledged writes survive a restart.  When the Barrel is stopped
\* and started again right after its one Index call so far returned a
\* response, with the whole text of the snapshot in the file, it serves
\* again and its store agrees with the store it held before on the six
\* persisted fields.
C36_AcknowledgedWritesSurvive ==
    (/\ io.op = "restart"
     /\ io.after_index
     /\ stores = 1
     /\ disk[StorePath].kind = "json")
        => /\ io.is_ok
           /\ barrel = "serving"
           /\ PersistedFields(index_store) = PersistedFields(io.before)

(***************************************************************************)
(* Claims on the configuration of the Gateway (Spec).                      *)
(***************************************************************************)
\* C37: the domain filter is applied at enqueue time.  Whatever filter the
\* Gateway was configured with, no Url admitted to the queue, by EnqueueUrl
\* or as an outlink of Index, has a blacklisted host, and when the whitelist
\* is not empty every Url admitted has a whitelisted host.
C37_DomainFilterApplied ==
    \A filter \in DomainsFilters : \A u \in Range(qhist) :
        /\ ~IsBlacklisted(filter, u)
        /\ filter.whitelist # {} => IsWhitelisted(filter, u)

\* C38: a Gateway built from a configuration starts with the seed Urls of
\* the configuration as its frontier.  Whatever seeds the configuration
\* lists, before the first request the queue holds them in order and each is
\* in the seen-set; and as long as no Url was admitted by EnqueueUrl or
\* Index, the Urls handed out by DequeueUrl are the first seeds in order and
\* no DequeueUrl waits while a seed is left.
C38_SeedsAreInitialFrontier ==
    \A seeds \in ConfigQueues :
        /\ calls = 0 => queue = seeds /\ Range(seeds) \subseteq seen
        /\ qhist = <<>> =>
               /\ Len(qout) <= Len(seeds)
               /\ qout = SubSeq(seeds, 1, Len(qout))
               /\ \A t \in Tasks : pc[t] = "deq_wait" => qout = seeds

(***************************************************************************)
(* Claims on the Gateway's mutexes                                         *)
(***************************************************************************)
\* the handlers that are between two steps of their own, neither finished
\* nor parked on a notification
Resting == Finished \cup {"deq_wait", "rts_wait"}

\* the mutex a task has to take for its next step
WaitsOn(t) ==
    CASE pc[t] \in {"idx_lock", "rts_barrels"} -> "load_balancer"
      [] pc[t] = "rts_queue" -> "queue"
      [] pc[t] \in {"search_status", "rts_status"} -> "status"
      [] OTHER -> "none"

\* the task holding a mutex, 0 when it is free
Holder(m) ==
    CASE m = "load_balancer" -> lb_lock
      [] m = "queue" -> queue_lock
      [] m = "status" -> status_lock
      [] OTHER -> 0

\* t waits for a mutex that s holds
Blocked(t, s) == WaitsOn(t) # "none" /\ Holder(WaitsOn(t)) = s

NoLockCycle ==
    \A C \in (SUBSET Tasks) \ {{}} : \E t \in C : \A s \in C : ~Blocked(t, s)

\* C39: the three mutexes of the Gateway never deadlock: under every
\* interleaving of the handlers no set of handlers wait for each other's
\* mutexes in a cycle, a mutex is only ever held by a handler that is still
\* running, and, the Barrels answering or failing every call, every handler
\* that is not parked on a notification eventually completes or parks
C39_MutexesNeverDeadlock ==
    /\ [](NoLockCycle /\ \A m \in {"load_balancer", "queue", "status"} :
                            Holder(m) # 0 => pc[Holder(m)] \notin Resting)
    /\ \A t \in Tasks : (pc[t] \notin Resting) ~> (pc[t] \in Resting)

\* a search holds the load_balancer mutex and waits for the status mutex
\* that a real_time_status holds
C39_Witness ==
    \E t, s \in Tasks :
        /\ pc[t] = "search_status" /\ lb_lock = t
        /\ pc[s] = "rts_return" /\ status_lock = s
        /\ Blocked(t, s)

(***************************************************************************)
(* Claims on the Downloader                                                *)
(***************************************************************************)
\* C40: a worker of the Downloader never terminates on a failure: whatever
\* failed in its turn of the loop (the connection, the dequeue, the fetch or
\* parse of the page), the worker is still running, a failed turn has put it
\* to sleep for an interval between 1 s and 60 s before its next DequeueUrl,
\* and a turn that succeeded has left the interval at 1 s
C40_WorkerSurvivesFailure ==
    \A w \in Workers :
        /\ workers[w].pc \notin {"panicked", "cancelled"}
        /\ workers[w].interval \in MIN_BACKOFF..MAX_BACKOFF
        /\ workers[w].last \in {"connect", "dequeue", "fetch"} =>
              \/ workers[w].pc = "sleep"
              \/ workers[w].pc \in {"connect", "dequeue"}
        /\ workers[w].last = "success" => workers[w].interval = MIN_BACKOFF
====
